---- MODULE Spec2Model ----
(***************************************************************************)
(* A model of the MAX interpreter: the scanner (scanner.rs), the two-pass  *)
(* Pratt compiler with its process-wide parser (compiler.rs), the chunk    *)
(* (chunk.rs), the values (value.rs) and the stack VM (vm.rs), driven as   *)
(* main.rs drives them: one interpret call on a file, or one interpret     *)
(* call per line of the REPL, all on the same VM.                          *)
(*                                                                         *)
(* Source text is a sequence of one-character strings.  Rust indexes from  *)
(* 0 and TLA+ from 1: every field keeps the Rust value (a cursor, an       *)
(* instruction pointer, a slot) and one is added where a sequence is read. *)
(* A Rust panic (unwrap of None, index out of bounds, todo!, arithmetic    *)
(* overflow of usize) ends the process: status "panic".  A loop that the   *)
(* code can never leave is status "hang".                                  *)
(***************************************************************************)
EXTENDS Integers, Sequences, FiniteSets, TLC

VARIABLES parser, frames, pc, mode, result, output, calls, steps, last, unit,
          the_chunk, lines_written, patches

vars == <<parser, frames, pc, mode, result, output, calls, steps, last, unit,
          the_chunk, lines_written, patches>>

(***************************************************************************)
(* Bounds of the model.                                                    *)
(***************************************************************************)
\* the number of lines the REPL reads
MaxCalls == 2
\* the number of instructions one process executes
MaxSteps == 60

\* usize::MAX, the "not found" slot of resolve_local.  TLC's integers are
\* 32 bits wide, so the model takes the largest of them: only its being
\* larger than every index of a vector matters.
usize_MAX == 2147483647

Min(a, b) == IF a < b THEN a ELSE b

(***************************************************************************)
(* scanner.rs                                                              *)
(***************************************************************************)
Letters ==
    {"a", "b", "c", "d", "e", "f", "g", "h", "i", "j", "k", "l", "m", "n",
     "o", "p", "q", "r", "s", "t", "u", "v", "w", "x", "y", "z"}

Digits == {"0", "1", "2", "3", "4", "5", "6", "7", "8", "9"}

\* char::is_alphabetic, char::is_digit(10), char::is_alphanumeric on the
\* ASCII characters the sources of the model are written in
is_alphabetic(c) == c \in Letters

is_digit(c) == c \in Digits

is_alphanumeric(c) == c \in Letters \cup Digits

\* the character '\0' that peek and peek_next return at the end
NUL == "NUL"

\* a token; start is the position of its first character in the source, kept
\* for the history of the parse
Token_new(type, line) == [type |-> type, lexeme |-> <<>>, line |-> line, start |-> 0]

Scanner_new(source) == [start |-> 0, current |-> 0, line |-> 1, source |-> source]

\* Scanner::reset, which Parser::reset calls and no source file defines: the
\* restart from position 0 of the specification
Scanner_reset(sc) == [sc EXCEPT !.start = 0, !.current = 0, !.line = 1]

is_at_end(sc) == sc.current >= Len(sc.source)

peek(sc) == IF is_at_end(sc) THEN NUL ELSE sc.source[sc.current + 1]

peek_next(sc) ==
    IF sc.current + 1 >= Len(sc.source) THEN NUL ELSE sc.source[sc.current + 2]

\* chars().skip(start).take(current - start): both saturate at the end
lexeme_of(sc) ==
    IF sc.start >= Len(sc.source) THEN <<>>
    ELSE SubSeq(sc.source, sc.start + 1, Min(sc.current, Len(sc.source)))

make_token(sc, type) ==
    [type |-> type, lexeme |-> lexeme_of(sc), line |-> sc.line, start |-> sc.start]

error_token(sc, message) ==
    [type |-> "Error", lexeme |-> <<message>>, line |-> sc.line, start |-> sc.start]

error_token_with_line(sc, message, line) ==
    [type |-> "Error", lexeme |-> <<message>>, line |-> line, start |-> sc.start]

RECURSIVE line_comment(_)
line_comment(sc) ==
    IF peek(sc) # "\n" /\ ~is_at_end(sc)
    THEN line_comment([sc EXCEPT !.current = @ + 1])
    ELSE sc

RECURSIVE block_comment(_)
block_comment(sc) ==
    IF peek(sc) # "*" /\ peek_next(sc) # "-" /\ ~is_at_end(sc)
    THEN block_comment([sc EXCEPT !.line = IF peek(sc) = "\n" THEN @ + 1 ELSE @,
                                  !.current = @ + 1])
    ELSE sc

RECURSIVE skip_whitespace(_)
skip_whitespace(sc) ==
    LET c == peek(sc) IN
    IF c \in {" ", "\r", "\t"} THEN skip_whitespace([sc EXCEPT !.current = @ + 1])
    ELSE IF c = "-" THEN
        IF peek_next(sc) = "-" THEN skip_whitespace(line_comment(sc))
        ELSE IF peek_next(sc) = "*" THEN
            skip_whitespace([block_comment([sc EXCEPT !.current = @ + 2])
                                EXCEPT !.current = @ + 2])
        ELSE sc
    ELSE sc

identifier_type(lex) ==
    CASE lex = <<"a", "n", "d">> -> "And"
      [] lex = <<"c", "l", "a", "s", "s">> -> "Class"
      [] lex = <<"e", "l", "s", "e">> -> "Else"
      [] lex = <<"f", "a", "l", "s", "e">> -> "False"
      [] lex = <<"f", "o", "r">> -> "For"
      [] lex = <<"i", "n">> -> "In"
      [] lex = <<"b", "r", "e", "a", "k">> -> "Break"
      [] lex = <<"c", "o", "n", "t", "i", "n", "u", "e">> -> "Continue"
      [] lex = <<"i", "f">> -> "If"
      [] lex = <<"o", "r">> -> "Or"
      [] lex = <<"p", "r", "i", "n", "t">> -> "Print"
      [] lex = <<"r", "e", "t", "u", "r", "n">> -> "Return"
      [] lex = <<"s", "u", "p", "e", "r">> -> "Super"
      [] lex = <<"m", "e">> -> "Me"
      [] lex = <<"c", "l", "s">> -> "Cls"
      [] lex = <<"t", "r", "u", "e">> -> "True"
      [] lex = <<"w", "h", "i", "l", "e">> -> "While"
      [] lex = <<"n", "o", "n", "e">> -> "None"
      [] lex = <<"i", "n", "t">> -> "TypeInt"
      [] lex = <<"f", "l", "o", "a", "t">> -> "TypeFloat"
      [] lex = <<"b", "o", "o", "l">> -> "TypeBool"
      [] lex = <<"s", "t", "r", "i", "n", "g">> -> "TypeString"
      [] OTHER -> "Identifier"

RECURSIVE identifier_loop(_)
identifier_loop(sc) ==
    IF is_alphanumeric(peek(sc)) \/ peek(sc) = "_"
    THEN identifier_loop([sc EXCEPT !.current = @ + 1])
    ELSE sc

\* Scanner::identifier; like every scanning operator below it gives the
\* scanner after the token and the token
identifier(sc) ==
    LET token(s1) == [sc |-> s1, tok |-> make_token(s1, identifier_type(lexeme_of(s1)))]
    IN  token(identifier_loop(sc))

RECURSIVE digits_loop(_)
digits_loop(sc) ==
    IF is_digit(peek(sc)) THEN digits_loop([sc EXCEPT !.current = @ + 1]) ELSE sc

number(sc) ==
    LET token(s, type) == [sc |-> s, tok |-> make_token(s, type)]
        fraction(s1) ==
            IF peek(s1) = "." /\ is_digit(peek_next(s1))
            THEN token(digits_loop([s1 EXCEPT !.current = @ + 1]), "Float")
            ELSE token(s1, "Integer")
    IN  fraction(digits_loop(sc))

RECURSIVE string_loop(_, _)
string_loop(sc, quote) ==
    IF peek(sc) # quote /\ ~is_at_end(sc)
    THEN LET escape(s1) == IF peek(s1) = "\\" /\ peek_next(s1) = quote
                           THEN [s1 EXCEPT !.current = @ + 2]
                           ELSE [s1 EXCEPT !.current = @ + 1]
         IN  string_loop(escape([sc EXCEPT !.line = IF peek(sc) = "\n" THEN @ + 1 ELSE @]),
                         quote)
    ELSE sc

string(sc) ==
    LET quote == sc.source[sc.start + 1]
        start_line == sc.line
        token(s1) ==
            IF is_at_end(s1)
            THEN [sc |-> s1,
                  tok |-> error_token_with_line(s1, "Unterminated string.", start_line)]
            ELSE [sc |-> [s1 EXCEPT !.current = @ + 1], tok |-> make_token(s1, "String")]
    IN  token(string_loop([sc EXCEPT !.start = @ + 1], quote))

\* Scanner::match_char(expected), as the test alone; the caller advances
match_char(sc, expected) == ~is_at_end(sc) /\ sc.source[sc.current + 1] = expected

two_char(sc, expected, two, one) ==
    IF match_char(sc, expected)
    THEN LET s1 == [sc EXCEPT !.current = @ + 1] IN [sc |-> s1, tok |-> make_token(s1, two)]
    ELSE [sc |-> sc, tok |-> make_token(sc, one)]

SingleChar ==
    [c \in {"(", ")", "{", "}", "[", "]", ",", ".", "-", "+", ":", ";", "/", "*"} |->
        CASE c = "(" -> "LeftParen" [] c = ")" -> "RightParen"
          [] c = "{" -> "LeftBrace" [] c = "}" -> "RightBrace"
          [] c = "[" -> "LeftSquareBracket" [] c = "]" -> "RightSquareBracket"
          [] c = "," -> "Comma" [] c = "." -> "Dot"
          [] c = "-" -> "Minus" [] c = "+" -> "Plus"
          [] c = ":" -> "Colon" [] c = ";" -> "Semicolon"
          [] c = "/" -> "Slash" [] c = "*" -> "Star"]

scan_token(sc0) ==
    LET \* s1 is the scanner after advance() has read the character c
        token(s1, c) ==
            IF is_alphabetic(c) THEN identifier(s1)
            ELSE IF is_digit(c) THEN number(s1)
            ELSE IF c \in DOMAIN SingleChar
                 THEN [sc |-> s1, tok |-> make_token(s1, SingleChar[c])]
            ELSE IF c = "\n"
                 THEN [sc |-> [s1 EXCEPT !.start = s1.current, !.line = @ + 1],
                       tok |-> make_token([s1 EXCEPT !.start = s1.current], "Newline")]
            ELSE IF c = "!" THEN two_char(s1, "=", "BangEqual", "Bang")
            ELSE IF c = "=" THEN two_char(s1, "=", "EqualEqual", "Equal")
            ELSE IF c = "<" THEN two_char(s1, "=", "LessEqual", "Less")
            ELSE IF c = ">" THEN two_char(s1, "=", "GreaterEqual", "Greater")
            ELSE IF c \in {"\"", "'"} THEN string(s1)
            ELSE [sc |-> s1, tok |-> error_token(s1, "Unexpected character.")]
        \* s0 is the scanner with start = current
        start(s0) ==
            IF is_at_end(s0) THEN [sc |-> s0, tok |-> make_token(s0, "Eof")]
            ELSE token([s0 EXCEPT !.current = @ + 1], s0.source[s0.current + 1])
        whitespace(sw) == start([sw EXCEPT !.start = sw.current])
    IN  whitespace(skip_whitespace(sc0))

(***************************************************************************)
(* chunk.rs and object.rs                                                  *)
(***************************************************************************)
\* An instruction word: an opcode, or Number(n), the operand of the opcode
\* before it.  Every word has both fields so that any two compare.
Op(name) == [op |-> name, n |-> 0]

Number(n) == [op |-> "Number", n |-> n]

Chunk_new == [code |-> <<>>, lines |-> <<>>, constants |-> <<>>, had_error |-> FALSE]

\* a write that compares the line with the last count of the table instead
\* of the last line
write_comparing_count(chunk, byte, line) ==
    LET lines_len == Len(chunk.lines) IN
    [chunk EXCEPT
        !.code = Append(@, byte),
        !.lines = IF lines_len > 1 /\ chunk.lines[lines_len] = line
                  THEN [@ EXCEPT ![lines_len] = @ + 1]
                  ELSE @ \o <<line, 1>>]

\* Chunk::write: the word is appended and the run-length line table grows
write(chunk, byte, line) ==
    LET lines_len == Len(chunk.lines) IN
    [chunk EXCEPT
        !.code = Append(@, byte),
        !.lines = IF lines_len > 1 /\ chunk.lines[lines_len - 1] = line
                  THEN [@ EXCEPT ![lines_len] = @ + 1]
                  ELSE @ \o <<line, 1>>]

\* Chunk::add_constant; the index it returns is Len(constants) - 1 afterwards
add_constant(chunk, value) == [chunk EXCEPT !.constants = Append(@, value)]

\* Chunk::get_line(index) on a line table: the pairs (line, count) are walked
\* from pair i (0, 2, ...) with the counts summed in line; the result is
\* [tag |-> "Ok", line |-> l], or tag "panic" past the last pair
RECURSIVE get_line_from(_, _, _, _)
get_line_from(lines, index, i, line) ==
    IF i >= Len(lines) THEN [tag |-> "panic", line |-> 0]
    ELSE IF line + lines[i + 2] - 1 >= index THEN [tag |-> "Ok", line |-> lines[i + 1]]
    ELSE get_line_from(lines, index, i + 2, line + lines[i + 2])

get_line(chunk, index) == get_line_from(chunk.lines, index, 0, 0)

\* Chunk::byte_instruction(op_code, index): code[index + 1] is printed, and
\* the arm that called it skips one word; -1 is the panic of the index
byte_instruction(chunk, index) == IF index + 2 > Len(chunk.code) THEN -1 ELSE 1

\* the arm of disassemble_instruction for OpCall, which OpCode of chunk.rs
\* does not list: the operand is printed and skipped as for OpSet or OpJump
disassemble_OpCall(chunk, index) == byte_instruction(chunk, index)

\* Chunk::disassemble_instruction(byte, index): the number of words to skip,
\* or -1 for a panic (of get_line, of the index code[index + 1], of the
\* constant lookup or of the last match arm)
disassemble_instruction(chunk, byte, index) ==
    IF get_line(chunk, index).tag = "panic" THEN -1
    ELSE IF byte.op = "OpConstant"
    THEN IF index + 2 > Len(chunk.code) THEN -1
         ELSE IF chunk.code[index + 2].op # "Number" THEN -1
         ELSE IF chunk.code[index + 2].n >= Len(chunk.constants) THEN -1
         ELSE 1
    ELSE IF byte.op \in {"OpSet", "OpGet", "OpJumpIfTrue", "OpJumpIfFalse", "OpJump",
                         "OpLoop"}
    THEN byte_instruction(chunk, index)
    ELSE IF byte.op = "OpCall" THEN disassemble_OpCall(chunk, index)
    ELSE IF byte.op \in {"OpAdd", "OpSubtract", "OpMultiply", "OpDivide", "OpTrue",
                         "OpFalse", "OpNone", "OpPrint", "OpNot", "OpNegate", "OpEqual",
                         "OpNotEqual", "OpGreater", "OpGreaterEqual", "OpLess",
                         "OpLessEqual", "OpReturn", "OpEol", "OpEof", "OpPop"}
    THEN 0
    ELSE -1

\* Chunk::disassemble from word index on: TRUE when the walk reaches the end
\* of the code, FALSE when disassemble_instruction panics
RECURSIVE disassemble_from(_, _)
disassemble_from(chunk, index) ==
    LET walk(skip_next) ==
            IF skip_next < 0 THEN FALSE ELSE disassemble_from(chunk, index + 1 + skip_next)
    IN  IF index >= Len(chunk.code) THEN TRUE
        ELSE walk(disassemble_instruction(chunk, chunk.code[index + 1], index))

disassemble(chunk) == disassemble_from(chunk, 0)

FunctionInfo_new(name) ==[name |-> name, arg_names |-> <<>>, arg_types |-> <<>>]

ObjFunction_new ==
    [name |-> <<>>, chunk |-> Chunk_new, function_info |-> FunctionInfo_new(<<>>),
     functions_count |-> 0]

\* a had_error that never reports the flag
had_error_never(function) == FALSE

\* ObjFunction::had_error
had_error(function) == function.chunk.had_error

(***************************************************************************)
(* value.rs                                                                *)
(***************************************************************************)
Integer(i) == [kind |-> "Integer", i |-> i]

\* Float(n / d): the model's sources hold only floats that f64 represents
\* exactly, so a fraction in lowest terms stands for the f64
Float(n, d) == [kind |-> "Float", n |-> n, d |-> d]

String(s) == [kind |-> "String", s |-> s]

ValNone == [kind |-> "None"]

ValTrue == [kind |-> "True"]

ValFalse == [kind |-> "False"]

ObjFunction(function) == [kind |-> "ObjFunction", fn |-> function]

is_truthy(v) ==
    CASE v.kind = "True" -> TRUE
      [] v.kind = "Integer" -> v.i # 0
      [] v.kind = "Float" -> v.n # 0
      [] v.kind = "String" -> v.s # <<>>
      [] OTHER -> FALSE

is_number(v) == v.kind \in {"Float", "Integer"}

\* Value::type_of
type_of(v) ==
    CASE v.kind = "Float" -> "float"
      [] v.kind = "Integer" -> "int"
      [] v.kind = "True" -> "bool"
      [] v.kind = "False" -> "bool"
      [] v.kind = "String" -> "string"
      [] v.kind = "ObjFunction" -> "function"
      [] v.kind = "None" -> "none"

\* TokenType::is_type
is_type(type) == type \in {"TypeFloat", "TypeInt", "TypeString", "TypeBool"}

\* TokenType::is_correct_type(value), which compiler.rs calls under the
\* name is_value_correct_type
is_correct_type(type, value) ==
    CASE type = "TypeFloat" -> value.kind \in {"Float", "FloatNone"}
      [] type = "TypeInt" -> value.kind \in {"Integer", "IntegerNone"}
      [] type = "TypeString" -> value.kind \in {"String", "StringNone"}
      [] type = "TypeBool" -> value.kind \in {"True", "False", "BoolNone"}
      [] type = "TypeFunction" -> value.kind = "ObjFunction"
      [] type = "None" -> TRUE
      [] OTHER -> FALSE

\* TokenType::get_none_type
get_none_type(type) ==
    CASE type = "TypeFloat" -> [kind |-> "FloatNone"]
      [] type = "TypeInt" -> [kind |-> "IntegerNone"]
      [] type = "TypeString" -> [kind |-> "StringNone"]
      [] type = "TypeBool" -> [kind |-> "BoolNone"]
      [] OTHER -> ValNone

\* TokenType::is_token_correct_type(token) is called by argument_list and
\* defined in no source file: the comparison "by token kind" of the
\* specification's call-site check
is_token_correct_type(type, token) ==
    CASE type = "TypeFloat" -> token.type = "Float"
      [] type = "TypeInt" -> token.type = "Integer"
      [] type = "TypeString" -> token.type = "String"
      [] type = "TypeBool" -> token.type \in {"True", "False"}
      [] OTHER -> FALSE

(***************************************************************************)
(* compiler.rs: the parser.  One record w is threaded through the          *)
(* compiler's operators: p is the process-wide PARSER, c the Compiler the  *)
(* code calls self, ret the value the last operator returned, status       *)
(* whether the compilation still runs.  diags (the diagnostics printed),   *)
(* pass, decls, refs, window, consumed and events are history the code     *)
(* does not keep.                                                          *)
(***************************************************************************)
Parser_new(source) ==
    [scanner |-> Scanner_new(source),
     current |-> Token_new("Empty", 0),
     previous_2 |-> Token_new("Empty", 0),
     previous |-> Token_new("Empty", 0),
     next |-> Token_new("Empty", 0),
     next_2 |-> Token_new("Empty", 0),
     had_error |-> FALSE,
     panic_mode |-> FALSE]

ok(w) == w.status = "ok"

panic(w) == [w EXCEPT !.status = "panic"]

\* the history events of w with one more event
note(w, event) == IF ~ok(w) THEN w ELSE [w EXCEPT !.events = Append(@, event)]

error_at(w, token, message) ==
    IF ~ok(w) \/ w.p.panic_mode THEN w
    ELSE [w EXCEPT !.p.panic_mode = TRUE,
                   !.p.had_error = TRUE,
                   !.diags = Append(@, [msg |-> message, pass |-> w.pass,
                                        at |-> token.type]),
                   !.events = Append(@, [event |-> "error", pass |-> w.pass,
                                         token |-> token])]

error_at_current(w, message) == error_at(w, w.p.current, message)

error_at_previous(w, message) == error_at(w, w.p.previous, message)

error_at_previous_2(w, message) == error_at(w, w.p.previous_2, message)

error_at_next(w, message) == error_at(w, w.p.next, message)

\* the inner loop of Parser::advance, which skips the Empty tokens of a
\* fresh window
RECURSIVE advance_fill(_)
advance_fill(p) ==
    IF p.current.type = "Empty"
    THEN LET shift(r) == [p EXCEPT !.current = p.next, !.next = p.next_2,
                                   !.next_2 = r.tok, !.scanner = r.sc]
         IN  advance_fill(shift(scan_token(p.scanner)))
    ELSE p

\* Parser::advance.  When current is an Error token the outer loop reports
\* it and goes round again, and nothing in the loop changes current: the
\* loop is never left.
advance(w) ==
    IF ~ok(w) THEN w
    ELSE LET shift(p0, r) ==
                 [p0 EXCEPT !.previous_2 = p0.previous, !.previous = p0.current,
                            !.current = p0.next, !.next = p0.next_2,
                            !.next_2 = r.tok, !.scanner = r.sc]
             loop(p2) ==
                 IF p2.current.type # "Error" THEN [w EXCEPT !.p = p2]
                 ELSE [error_at_next([w EXCEPT !.p = p2], "Error at next token.")
                          EXCEPT !.status = "hang"]
         IN  loop(advance_fill(shift(w.p, scan_token(w.p.scanner))))

\* recur("advance", w, 0) is self.parser.advance(): recur is defined after
\* Compiler::compile
RECURSIVE recur(_, _, _)

\* Parser::consume.  consumed notes each call: the type asked for, the type
\* of the current token, whether panic mode was on, and whether the call
\* recorded a diagnostic and left had_error set
consume(w, type, message) ==
    LET called(w1) ==
            IF ~ok(w) THEN w1
            ELSE [w1 EXCEPT !.consumed = Append(@, [type |-> type,
                                                    current |-> w.p.current.type,
                                                    panic_mode |-> w.p.panic_mode,
                                                    reported |-> Len(w1.diags) > Len(w.diags),
                                                    had_error |-> w1.p.had_error])]
    IN  called(IF w.p.current.type = type \/ w.p.current.type = "Eof"
               THEN recur("advance", w, 0)
               ELSE error_at_current(w, message))

\* Parser::check; match_token(type) is "IF check THEN advance"
check(w, type) == w.p.current.type = type

match_token(w, type) == IF check(w, type) THEN recur("advance", w, 0) ELSE w

Parser_reset(p) ==
    [p EXCEPT !.scanner = Scanner_reset(@),
              !.previous_2 = Token_new("Empty", 0),
              !.previous = Token_new("Empty", 0),
              !.current = Token_new("Empty", 0),
              !.next = Token_new("Empty", 0),
              !.next_2 = Token_new("Empty", 0),
              !.had_error = FALSE,
              !.panic_mode = FALSE]


(***************************************************************************)
(* compiler.rs: the compiler                                               *)
(***************************************************************************)
\* an empty HashMap
EmptyMap == [k \in {} |-> 0]

insert(map, key, value) ==
    [k \in DOMAIN map \cup {key} |-> IF k = key THEN value ELSE map[k]]

Compiler_new ==
    [function |-> ObjFunction_new,
     function_type |-> "Script",
     locals |-> <<>>,
     functions |-> EmptyMap,
     values |-> EmptyMap,
     scope_depth |-> 0]

\* enum Precedence, as u8
PrecNone == 0
PrecAssignment == 1
PrecOr == 2
PrecAnd == 3
PrecEquality == 4
PrecComparison == 5
PrecTerm == 6
PrecFactor == 7
PrecUnary == 8
PrecCall == 9
PrecPrimary == 10

ParseRule(precedence, prefix, infix) ==
    [precedence |-> precedence, prefix |-> prefix, infix |-> infix]

\* Compiler::get_rule; prefix and infix name the function of the rule
get_rule(type) ==
    CASE type = "Float" -> ParseRule(PrecNone, "float", "none")
      [] type = "Integer" -> ParseRule(PrecNone, "integer", "none")
      [] type = "String" -> ParseRule(PrecNone, "string", "none")
      [] type = "True" -> ParseRule(PrecNone, "literal", "none")
      [] type = "False" -> ParseRule(PrecNone, "literal", "none")
      [] type = "None" -> ParseRule(PrecNone, "literal", "none")
      [] type = "LeftParen" -> ParseRule(PrecCall, "grouping", "call")
      [] type = "Minus" -> ParseRule(PrecTerm, "unary", "binary")
      [] type = "Plus" -> ParseRule(PrecTerm, "none", "binary")
      [] type = "Star" -> ParseRule(PrecFactor, "none", "binary")
      [] type = "Slash" -> ParseRule(PrecFactor, "none", "binary")
      [] type = "And" -> ParseRule(PrecAnd, "none", "and")
      [] type = "Or" -> ParseRule(PrecOr, "none", "or")
      [] type = "EqualEqual" -> ParseRule(PrecEquality, "none", "binary")
      [] type = "Greater" -> ParseRule(PrecEquality, "none", "binary")
      [] type = "GreaterEqual" -> ParseRule(PrecEquality, "none", "binary")
      [] type = "Less" -> ParseRule(PrecEquality, "none", "binary")
      [] type = "LessEqual" -> ParseRule(PrecEquality, "none", "binary")
      [] type = "Bang" -> ParseRule(PrecUnary, "unary", "none")
      [] type = "BangEqual" -> ParseRule(PrecUnary, "none", "binary")
      [] type = "Identifier" -> ParseRule(PrecNone, "variable", "none")
      [] OTHER -> ParseRule(PrecNone, "none", "none")

emit_byte(w, byte) ==
    IF ~ok(w) THEN w
    ELSE [w EXCEPT !.c.function.chunk = write(@, byte, w.p.previous.line)]

emit_2_bytes(w, byte1, byte2) == emit_byte(emit_byte(w, byte1), byte2)

\* Compiler::make_constant: ret is the operand word
make_constant(w, value) ==
    IF ~ok(w) THEN w
    ELSE [w EXCEPT !.c.function.chunk = add_constant(@, value),
                   !.ret = Number(Len(w.c.function.chunk.constants))]

emit_constant(w, value) ==
    LET emit(w1) == emit_2_bytes(w1, Op("OpConstant"), w1.ret)
    IN  emit(make_constant(w, value))

emit_return(w) == emit_byte(emit_byte(w, Op("OpNone")), Op("OpReturn"))

emit_eol(w) == emit_byte(w, Op("OpEol"))

\* Compiler::end_compiler: ret is the function
end_compiler(w) ==
    LET returned_function(w1) == [w1 EXCEPT !.ret = w1.c.function]
    IN  returned_function(emit_return(w))

start_compiler(w) == recur("advance", w, 0)

\* Compiler::emit_jump: ret is the index of the placeholder
emit_jump(w, instruction) ==
    LET placeholder(w1) == [w1 EXCEPT !.ret = Len(w1.c.function.chunk.code) - 1]
    IN  placeholder(emit_byte(emit_byte(w, instruction), Number(0)))

\* a patch_jump that measures the offset from the operand word instead of
\* from the word after it
patch_jump_from_operand(w, offset) ==
    IF ~ok(w) THEN w
    ELSE LET jump == Len(w.c.function.chunk.code) - offset IN
         [w EXCEPT !.c.function.chunk.code[offset + 1] = Number(jump)]

\* Compiler::patch_jump
patch_jump(w, offset) ==
    IF ~ok(w) THEN w
    ELSE LET jump == Len(w.c.function.chunk.code) - offset - 1 IN
         [w EXCEPT !.c.function.chunk.code[offset + 1] = Number(jump)]

\* an emit_loop that writes OpLoop without its operand word
emit_loop_without_operand(w, loop_start) == emit_byte(w, Op("OpLoop"))

\* Compiler::emit_loop
emit_loop(w, loop_start) ==
    LET offset(w1) ==
            emit_byte(w1, Number(Len(w1.c.function.chunk.code) - loop_start + 2))
    IN  offset(emit_byte(w, Op("OpLoop")))

begin_scope(w) == IF ~ok(w) THEN w ELSE [w EXCEPT !.c.scope_depth = @ + 1]

\* the for loop of Compiler::end_scope: i runs from locals.len() - 1 down
\* to 0 over the length the vector had at the start, and each hit pops the
\* last local
RECURSIVE end_scope_loop(_, _)
end_scope_loop(w, i) ==
    IF i < 0 \/ ~ok(w) THEN w
    ELSE IF w.c.locals[i + 1].depth > w.c.scope_depth
         THEN end_scope_loop([emit_byte(w, Op("OpPop"))
                                 EXCEPT !.c.locals = SubSeq(@, 1, Len(@) - 1)], i - 1)
         ELSE end_scope_loop(w, i - 1)

end_scope(w) ==
    IF ~ok(w) THEN w
    ELSE IF w.c.scope_depth = 0 THEN panic(w)
    ELSE LET w1 == [w EXCEPT !.c.scope_depth = @ - 1]
             \* events notes each call: the new scope depth, the locals before
             \* and after it, and the words it emitted
             ended(w2) ==
                 note(w2, [event |-> "end_scope", scope_depth |-> w.c.scope_depth - 1,
                           before |-> w.c.locals, after |-> w2.c.locals,
                           emitted |-> SubSeq(w2.c.function.chunk.code,
                                              Len(w.c.function.chunk.code) + 1,
                                              Len(w2.c.function.chunk.code))])
         IN  ended(end_scope_loop(w1, Len(w1.c.locals) - 1))

\* an add_local that pushes the new local as already initialized
add_local_initialized(w, name, var_type) ==
    IF ~ok(w) THEN w
    ELSE LET same == {i \in 1..Len(w.c.locals) : w.c.locals[i].name.lexeme = name.lexeme} IN
         IF same # {}
         THEN [w EXCEPT !.ret = (CHOOSE i \in same : \A j \in same : j <= i) - 1]
         ELSE [w EXCEPT !.c.locals = Append(@, [name |-> name,
                                                 depth |-> w.c.scope_depth,
                                                 type_ |-> var_type,
                                                 is_initialized |-> TRUE]),
                        !.ret = Len(w.c.locals)]

\* an add_local that never looks for a local of the same name
add_local_always_appends(w, name, var_type) ==
    IF ~ok(w) THEN w
    ELSE LET added(w1) ==
                 note(w1, [event |-> "add_local", name |-> name, var_type |-> var_type,
                           scope_depth |-> w.c.scope_depth, before |-> w.c.locals,
                           after |-> w1.c.locals, ret |-> w1.ret])
         IN  added([w EXCEPT !.c.locals = Append(@, [name |-> name,
                                                      depth |-> w.c.scope_depth,
                                                      type_ |-> var_type,
                                                      is_initialized |-> FALSE]),
                             !.ret = Len(w.c.locals)])

\* Compiler::add_local: ret is the index of the local.  events notes each
\* call: its arguments, the locals before and after it, and what it returned
add_local(w, name, var_type) ==
    IF ~ok(w) THEN w
    ELSE LET same == {i \in 1..Len(w.c.locals) : w.c.locals[i].name.lexeme = name.lexeme}
             added(w1) ==
                 note(w1, [event |-> "add_local", name |-> name, var_type |-> var_type,
                           scope_depth |-> w.c.scope_depth, before |-> w.c.locals,
                           after |-> w1.c.locals, ret |-> w1.ret])
         IN  added(IF same # {}
                   THEN [w EXCEPT !.ret = (CHOOSE i \in same : \A j \in same : j <= i) - 1]
                   ELSE [w EXCEPT !.c.locals = Append(@, [name |-> name,
                                                           depth |-> w.c.scope_depth,
                                                           type_ |-> var_type,
                                                           is_initialized |-> FALSE]),
                                  !.ret = Len(w.c.locals)])

declare_variable(w, var_type) == add_local(w, w.p.previous, var_type)

\* Compiler::parse_variable: ret is the index, the n of the Number it returns
parse_variable(w, message, var_type) ==
    declare_variable(consume(w, "Identifier", message), var_type)

\* Compiler::resolve_local: ret is the slot.  refs notes each name resolved
\* to a local: its slot, whether the local is between add_local and the end
\* of its initializer (window), its flag, whether panic mode was on, and the
\* diagnostic and had_error the call leaves
resolve_local(w, name) ==
    IF ~ok(w) THEN w
    ELSE LET same == {i \in 1..Len(w.c.locals) : w.c.locals[i].name.lexeme = name} IN
         IF same # {}
         THEN LET i == CHOOSE i \in same : \A j \in same : j <= i
                  found(w1) ==
                      [w1 EXCEPT
                         !.ret = i - 1,
                         !.refs = Append(@, [slot |-> i - 1,
                                             in_window |-> (i - 1) \in w.window,
                                             is_initialized |-> w.c.locals[i].is_initialized,
                                             panic_mode |-> w.p.panic_mode,
                                             diag |-> IF Len(w1.diags) > Len(w.diags)
                                                      THEN w1.diags[Len(w1.diags)].msg
                                                      ELSE "none",
                                             had_error |-> w1.p.had_error])]
              IN  found(IF ~w.c.locals[i].is_initialized
                        THEN error_at_previous(w, "Variable is used before being initialized.")
                        ELSE w)
         ELSE [error_at_previous(w, "Variable could not be found.") EXCEPT !.ret = usize_MAX]

\* Compiler::set_value: values.entry(name).or_insert(value) keeps the
\* value the name already has
set_value(w, var_name_register, value) ==
    LET name == w.c.locals[var_name_register + 1].name.lexeme IN
    IF name \in DOMAIN w.c.values THEN w
    ELSE [w EXCEPT !.c.values = insert(@, name, value)]

\* Compiler::set_variable; self.locals[usize::MAX] is out of bounds
set_variable(w, var_name_register) ==
    IF ~ok(w) THEN w
    ELSE IF var_name_register >= Len(w.c.locals) THEN panic(w)
    ELSE LET local == w.c.locals[var_name_register + 1]
             constants == w.c.function.chunk.constants
         IN  IF constants = <<>>
             THEN error_at_previous(w, "No value found to assign to the variable.")
             ELSE LET value == constants[Len(constants)]
                      w1 == IF ~is_correct_type(local.type_, value)
                            THEN error_at_previous(w, "Variable is of type but value is of type")
                            ELSE w
                      w2 == set_value(w1, var_name_register, value)
                  IN  emit_2_bytes(w2, Op("OpSet"), Number(var_name_register))

\* Compiler::function_info: ret is the signature
function_info(w, name) ==
    IF ~ok(w) THEN w
    ELSE IF name \in DOMAIN w.c.functions
         THEN [w EXCEPT !.ret = w.c.functions[name]]
         ELSE [error_at_previous_2(w, "Function could not be found.")
                  EXCEPT !.ret = FunctionInfo_new(<<>>)]

\* Compiler::synchronize
RECURSIVE synchronize_loop(_)
synchronize_loop(w) ==
    IF ~ok(w) \/ w.p.current.type = "Eof" \/ w.p.previous.type = "Newline" THEN w
    ELSE synchronize_loop(recur("advance", w, 0))

synchronize(w) ==
    IF ~ok(w) THEN w
    ELSE LET resumed(w1) ==
                 note(w1, [event |-> "synchronize", pass |-> w1.pass,
                           panic_mode |-> w1.p.panic_mode,
                           previous |-> w1.p.previous,
                           current |-> w1.p.current])
         IN  resumed(synchronize_loop([w EXCEPT !.p.panic_mode = FALSE]))

\* str::parse::<i64>() of a lexeme of digits
DigitValue(c) ==
    CASE c = "0" -> 0 [] c = "1" -> 1 [] c = "2" -> 2 [] c = "3" -> 3 [] c = "4" -> 4
      [] c = "5" -> 5 [] c = "6" -> 6 [] c = "7" -> 7 [] c = "8" -> 8 [] c = "9" -> 9

RECURSIVE parse_i64(_)
parse_i64(lex) ==
    IF lex = <<>> THEN 0
    ELSE 10 * parse_i64(SubSeq(lex, 1, Len(lex) - 1)) + DigitValue(lex[Len(lex)])

RECURSIVE Pow10(_)
Pow10(k) == IF k = 0 THEN 1 ELSE 10 * Pow10(k - 1)

RECURSIVE Gcd(_, _)
Gcd(a, b) == IF b = 0 THEN a ELSE Gcd(b, a % b)

Abs(a) == IF a < 0 THEN -a ELSE a

\* the float n / d in lowest terms, d > 0
Ratio(n, d) ==
    LET g == Gcd(Abs(n), Abs(d))
        sgn == IF d < 0 THEN -1 ELSE 1
    IN  Float(sgn * (n \div g), sgn * (d \div g))

\* str::parse::<f64>() of a lexeme digits '.' digits
parse_f64(lex) ==
    LET dot == CHOOSE i \in 1..Len(lex) : lex[i] = "."
        whole == SubSeq(lex, 1, dot - 1)
        frac == SubSeq(lex, dot + 1, Len(lex))
    IN  Ratio(parse_i64(whole) * Pow10(Len(frac)) + parse_i64(frac), Pow10(Len(frac)))


RECURSIVE declaration(_), statement(_), block(_), block_loop(_),
          variable_assignment(_), function_initialization(_), function(_, _),
          function_arguments(_), if_statement(_), while_statement(_),
          print_statement(_), expression_statement(_), expression(_),
          parse_precendence(_, _), infix_loop(_, _, _), call_rule(_, _, _),
          grouping(_, _), unary(_, _), binary(_, _), variable(_, _),
          named_variable(_, _, _), and(_, _), or(_, _), call(_, _),
          argument_list(_), arguments(_, _)

integer(w, can_assign) == emit_constant(w, Integer(parse_i64(w.p.previous.lexeme)))

float(w, can_assign) == emit_constant(w, parse_f64(w.p.previous.lexeme))

\* Compiler::string
compile_string(w, can_assign) == emit_constant(w, String(w.p.previous.lexeme))

literal(w, can_assign) ==
    CASE w.p.previous.type = "True" -> emit_constant(w, ValTrue)
      [] w.p.previous.type = "False" -> emit_constant(w, ValFalse)
      [] w.p.previous.type = "None" -> emit_constant(w, ValNone)
      [] OTHER -> panic(w)

\* the call of a rule's prefix or infix function
call_rule(name, w, can_assign) ==
    IF ~ok(w) THEN w
    ELSE CASE name = "float" -> float(w, can_assign)
           [] name = "integer" -> integer(w, can_assign)
           [] name = "string" -> compile_string(w, can_assign)
           [] name = "literal" -> literal(w, can_assign)
           [] name = "grouping" -> grouping(w, can_assign)
           [] name = "call" -> call(w, can_assign)
           [] name = "unary" -> unary(w, can_assign)
           [] name = "binary" -> binary(w, can_assign)
           [] name = "and" -> and(w, can_assign)
           [] name = "or" -> or(w, can_assign)
           [] name = "variable" -> variable(w, can_assign)
           [] name = "none" -> w

\* the while loop of parse_precendence
infix_loop(w, precedence, can_assign) ==
    IF ~ok(w) \/ precedence > get_rule(w.p.current.type).precedence THEN w
    ELSE LET infix_rule(w1) ==
                 infix_loop(call_rule(get_rule(w1.p.previous.type).infix, w1, can_assign),
                            precedence, can_assign)
         IN  infix_rule(recur("advance", w, 0))

parse_precendence(w, precedence) ==
    IF ~ok(w) THEN w
    ELSE LET can_assign == precedence <= PrecAssignment
             target(w3) ==
                 IF can_assign /\ ok(w3) /\ check(w3, "Equal")
                 THEN error_at_previous(recur("advance", w3, 0), "Invalid assignment target.")
                 ELSE w3
             prefix_rule(w1, prefix) ==
                 IF ~ok(w1) THEN w1
                 ELSE IF prefix = "none" /\ w1.p.previous.type # "Newline"
                         /\ w1.p.current.type = "Newline"
                 THEN error_at_previous(w1, "Expect expression.")
                 ELSE target(infix_loop(call_rule(prefix, w1, can_assign),
                                        precedence, can_assign))
             first(w1) == prefix_rule(w1, get_rule(w1.p.previous.type).prefix)
         IN  first(recur("advance", w, 0))

expression(w) == recur("parse_precendence", w, PrecAssignment)

grouping(w, can_assign) ==
    consume(expression(w), "RightParen", "Expect ')' after expression.")

unary(w, can_assign) ==
    LET operator_type == w.p.previous.type
        operand(w1) ==
          CASE operator_type = "Minus" -> emit_byte(w1, Op("OpNegate"))
          [] operator_type = "Bang" -> emit_byte(w1, Op("OpNot"))
          [] OTHER -> panic(w1)
    IN  operand(recur("parse_precendence", w, PrecUnary))

binary(w, can_assign) ==
    LET operator_type == w.p.previous.type
        rule == get_rule(operator_type)
        right(w1) ==
          CASE operator_type = "Plus" -> emit_byte(w1, Op("OpAdd"))
          [] operator_type = "Minus" -> emit_byte(w1, Op("OpSubtract"))
          [] operator_type = "Star" -> emit_byte(w1, Op("OpMultiply"))
          [] operator_type = "Slash" -> emit_byte(w1, Op("OpDivide"))
          [] operator_type = "BangEqual" -> emit_byte(w1, Op("OpNotEqual"))
          [] operator_type = "EqualEqual" -> emit_byte(w1, Op("OpEqual"))
          [] operator_type = "Greater" -> emit_byte(w1, Op("OpGreater"))
          [] operator_type = "GreaterEqual" -> emit_byte(w1, Op("OpGreaterEqual"))
          [] operator_type = "Less" -> emit_byte(w1, Op("OpLess"))
          [] operator_type = "LessEqual" -> emit_byte(w1, Op("OpLessEqual"))
          [] OTHER -> panic(w1)
    IN  right(recur("parse_precendence", w, rule.precedence + 1))

named_variable(w, name, can_assign) ==
    LET get(w2, arg) == emit_2_bytes(w2, Op("OpGet"), Number(arg))
        assign(w1, arg) ==
            get(IF can_assign /\ ok(w1) /\ check(w1, "Equal")
                THEN set_variable(expression(recur("advance", w1, 0)), arg)
                ELSE w1, arg)
        resolved(w1) == assign(w1, w1.ret)
    IN  resolved(resolve_local(w, name))

variable(w, can_assign) == named_variable(w, w.p.previous.lexeme, can_assign)

and(w, can_assign) ==
    LET right(w1, end_jump) ==
            patch_jump(recur("parse_precendence", emit_byte(w1, Op("OpPop")), PrecAnd),
                       end_jump)
        jump(w1) == right(w1, w1.ret)
    IN  jump(emit_jump(w, Op("OpJumpIfFalse")))

or(w, can_assign) ==
    LET right(w1, end_jump) ==
            patch_jump(recur("parse_precendence", emit_byte(w1, Op("OpPop")), PrecOr),
                       end_jump)
        jump(w1) == right(w1, w1.ret)
    IN  jump(emit_jump(w, Op("OpJumpIfTrue")))

\* the loop of argument_list that compiles the arguments; ret is args, the
\* first token of each
arguments(w, args) ==
    IF ~ok(w) THEN [w EXCEPT !.ret = args]
    ELSE LET args1 == Append(args, w.p.current)
             comma(w1) ==
                 IF ok(w1) /\ check(w1, "Comma")
                 THEN arguments(recur("advance", w1, 0), args1)
                 ELSE [w1 EXCEPT !.ret = args1]
         IN  comma(expression(w))

\* the loop of argument_list that checks each argument against the
\* parameter's type: arg_types[i] is out of bounds when the call has more
\* arguments than the signature has parameters
RECURSIVE check_arguments(_, _, _, _)
check_arguments(w, info, args, i) ==
    IF ~ok(w) \/ i >= Len(args) THEN w
    ELSE IF i >= Len(info.arg_types) THEN panic(w)
    ELSE LET type == info.arg_types[i + 1]
             arg == args[i + 1]
         IN  IF is_token_correct_type(type, arg)
             THEN check_arguments(w, info, args, i + 1)
             ELSE LET known == arg.lexeme \in DOMAIN w.c.values
                      w1 == IF known THEN w
                            ELSE error_at_previous(w, "Expected argument of type")
                      value == IF known THEN w.c.values[arg.lexeme] ELSE ValNone
                      w2 == IF ~is_correct_type(type, value)
                            THEN error_at_previous(w1, "Expected argument of type")
                            ELSE w1
                  IN  check_arguments(w2, info, args, i + 1)

\* Compiler::argument_list: ret is args.len()
argument_list(w) ==
    IF ~ok(w) THEN w
    ELSE LET count(w2, info, args) ==
                 IF Len(args) # Len(info.arg_names)
                 THEN error_at_previous(w2, IF Len(info.arg_names) = 1
                                            THEN "Expected argument but got"
                                            ELSE "Expected arguments but got")
                 ELSE w2
             checked(w2, info, args) ==
                 IF ~ok(w2) THEN w2
                 ELSE [consume(check_arguments(count(w2, info, args), info, args, 0),
                               "RightParen", "Expect ')' after arguments.")
                          EXCEPT !.ret = Len(args)]
             compiled(w2, info) == checked(w2, info, w2.ret)
             found(w1) ==
                 compiled(IF ~check(w1, "RightParen") THEN arguments(w1, <<>>)
                          ELSE [w1 EXCEPT !.ret = <<>>], w1.ret)
         IN  found(function_info(w, w.p.previous_2.lexeme))

call(w, can_assign) ==
    LET arg_count(w1) ==
            IF ~ok(w1) THEN w1 ELSE emit_2_bytes(w1, Op("OpCall"), Number(w1.ret))
    IN  arg_count(argument_list(w))

expression_statement(w) == emit_eol(expression(w))

print_statement(w) ==
    LET w1 == consume(expression(w), "Newline", "Expect newline after value.") IN
    emit_eol(emit_byte(w1, Op("OpPrint")))

\* Compiler::for_statement is todo!()
for_statement(w) == panic(w)

\* Compiler::while_statement.  events notes the chunk, loop_start and the
\* index at which OpLoop is written
while_statement(w) ==
    IF ~ok(w) THEN w
    ELSE LET loop_start == Len(w.c.function.chunk.code)
             break(w7) ==
                 IF ok(w7) /\ check(w7, "Break")
                 THEN emit_jump(recur("advance", w7, 0), Op("OpJump"))
                 ELSE w7
             looped(w5) ==
                 IF ~ok(w5) THEN w5
                 ELSE note(w5, [event |-> "while", chunk |-> w5.c.function.name,
                                loop_start |-> loop_start,
                                at |-> Len(w5.c.function.chunk.code)])
             body(w2, exit_jump) ==
                 break(emit_byte(patch_jump(emit_loop(looped(recur("statement",
                                                                   emit_byte(w2, Op("OpPop")), 0)),
                                                      loop_start),
                                            exit_jump),
                                 Op("OpPop")))
             condition(w2) == body(w2, w2.ret)
         IN  condition(emit_jump(expression(w), Op("OpJumpIfFalse")))

if_statement(w) ==
    IF ~ok(w) THEN w
    ELSE LET else_branch(w6) ==
                 IF ok(w6) /\ check(w6, "Else")
                 THEN recur("statement", recur("advance", w6, 0), 0)
                 ELSE w6
             \* events notes the statement: its chunk, the index of the first
             \* word of the condition and the index behind its last word
             compiled(w7) ==
                 note(w7, [event |-> "if", chunk |-> w7.c.function.name,
                           start |-> Len(w.c.function.chunk.code),
                           end |-> Len(w7.c.function.chunk.code)])
             after_then(w5, then_jump, else_jump) ==
                 compiled(emit_byte(patch_jump(else_branch(patch_jump(w5, then_jump)),
                                               else_jump),
                                    Op("OpPop")))
             then_branch(w2, then_jump) ==
                 LET jump(w5) == after_then(w5, then_jump, w5.ret)
                 IN  jump(emit_jump(recur("statement", emit_byte(w2, Op("OpPop")), 0),
                                    Op("OpJump")))
             condition(w2) == then_branch(w2, w2.ret)
         IN  condition(emit_jump(expression(w), Op("OpJumpIfFalse")))

block_loop(w) ==
    IF ~ok(w) \/ check(w, "RightBrace") \/ check(w, "Eof") THEN w
    ELSE block_loop(recur("declaration", w, 0))

block(w) == consume(block_loop(w), "RightBrace", "Expect '}' after block")

statement(w) ==
    IF ~ok(w) THEN w
    ELSE CASE check(w, "Print") -> print_statement(recur("advance", w, 0))
           [] check(w, "If") -> if_statement(recur("advance", w, 0))
           [] check(w, "While") -> while_statement(recur("advance", w, 0))
           [] check(w, "For") -> for_statement(recur("advance", w, 0))
           [] check(w, "LeftBrace") -> end_scope(block(begin_scope(recur("advance", w, 0))))
           [] OTHER -> expression_statement(w)

\* Compiler::variable_assignment.  decls notes each declaration: the chunk,
\* the local's index, the annotation, whether an initializer followed, the
\* length of the code once the declaration is compiled, whether add_local
\* pushed a new local and the flag of the local before the last line sets it.
\* window holds the slots pushed by a declaration that has not ended.
variable_assignment(w) ==
    IF ~ok(w) THEN w
    ELSE LET typed == is_type(w.p.current.type)
             var_type == IF typed THEN w.p.current.type ELSE "None"
             declared(w3, var_name_register, initialized) ==
                 IF ~ok(w3) THEN w3
                 ELSE [w3 EXCEPT
                         !.c.locals[var_name_register + 1].is_initialized = TRUE,
                         !.window = @ \ {var_name_register},
                         !.decls = Append(@, [chunk |-> w3.c.function.name,
                                              slot |-> var_name_register,
                                              type_ |-> var_type,
                                              initializer |-> initialized,
                                              end |-> Len(w3.c.function.chunk.code),
                                              new |-> var_name_register \in w3.window,
                                              was_initialized |->
                                                  w3.c.locals[var_name_register + 1].is_initialized])]
             assigned(w2, var_name_register, initialized) ==
                 declared(IF initialized
                          THEN set_variable(expression(recur("advance", w2, 0)), var_name_register)
                          ELSE w2, var_name_register, initialized)
             pushed(w2) ==
                 IF ok(w2) /\ Len(w2.c.locals) > Len(w.c.locals)
                 THEN [w2 EXCEPT !.window = @ \cup {w2.ret}]
                 ELSE w2
             named(w2) == assigned(pushed(w2), w2.ret, ok(w2) /\ check(w2, "Equal"))
         IN  named(parse_variable(IF typed THEN recur("advance", w, 0) ELSE w,
                                  "Expect variable name.", var_type))

\* the loop of Compiler::function that declares the parameters
function_arguments(w) ==
    LET comma(w1) ==
            IF ok(w1) /\ check(w1, "Comma") THEN function_arguments(recur("advance", w1, 0)) ELSE w1
    IN  comma(variable_assignment(w))

\* Compiler::function: a nested compiler compiles the body on the same
\* parser, and its function becomes a constant of the enclosing chunk
function(w, function_type) ==
    IF ~ok(w) THEN w
    ELSE LET outer == w.c
             name == w.p.previous.lexeme
             compiler == [Compiler_new EXCEPT
                             !.function_type = function_type,
                             !.function.name = name,
                             !.locals = outer.locals,
                             !.function.chunk.constants = outer.function.chunk.constants,
                             !.function.functions_count = outer.function.functions_count,
                             !.functions = outer.functions,
                             !.scope_depth = 1]
             w1 == [w EXCEPT !.c = compiler]
             constant(w6) == emit_2_bytes(w6, Op("OpConstant"), w6.ret)
             compiled(w5) ==
                 IF ~ok(w5) THEN w5
                 ELSE constant(make_constant([w5 EXCEPT !.c = outer], ObjFunction(w5.ret)))
             body(w2) ==
                 IF ~ok(w2) THEN w2
                 ELSE IF name \notin DOMAIN outer.functions THEN panic(w2)
                 ELSE compiled(end_compiler(block(consume(
                          [w2 EXCEPT !.c.function.function_info = outer.functions[name]],
                          "LeftBrace", "Expect '{' before function body."))))
         IN  body(IF check(w1, "Colon") THEN function_arguments(recur("advance", w1, 0)) ELSE w1)

function_initialization(w) ==
    LET \* events notes each function definition of the second pass
        named(w1) ==
            set_variable(function(note(w1, [event |-> "function_initialization",
                                            name |-> w1.p.previous.lexeme]),
                                  "Function"), w1.ret)
    IN  named(parse_variable(w, "Expect function name.", "TypeFunction"))

declaration(w) ==
    IF ~ok(w) THEN w
    ELSE LET cur == w.p.current.type
             nxt == w.p.next.type
             recover(w1) == IF w1.p.panic_mode THEN synchronize(w1) ELSE w1
         IN  recover(IF (cur = "Identifier" /\ (nxt = "Equal" \/ nxt = "Newline"))
                        \/ is_type(cur)
                     THEN variable_assignment(w)
                     ELSE IF cur = "Identifier" /\ (nxt = "Colon" \/ nxt = "LeftBrace")
                     THEN function_initialization(w)
                     ELSE recur("statement", w, 0))

\* the loop of function_declaration over the parameters of a header; ret
\* is the signature
RECURSIVE header_arguments(_, _)
header_arguments(w, info) ==
    IF ~ok(w) THEN [w EXCEPT !.ret = info]
    ELSE LET w1 == IF ~is_type(w.p.current.type)
                   THEN error_at_current(w, "Expect variable type annotation.")
                   ELSE IF w.p.next.type # "Identifier"
                   THEN error_at_next(w, "Expect variable name.")
                   ELSE w
             info1 == [info EXCEPT !.arg_types = Append(@, w.p.current.type),
                                   !.arg_names = Append(@, w.p.next.lexeme)]
             comma(w2) ==
                 IF ok(w2) /\ check(w2, "Comma")
                 THEN header_arguments(recur("advance", w2, 0), info1)
                 ELSE [w2 EXCEPT !.ret = info1]
         IN  comma(recur("advance", recur("advance", w1, 0), 0))

\* Compiler::function_declaration (pass 1)
function_declaration(w) ==
    LET signature(w3, function_name) ==
            IF ~ok(w3) THEN w3
            ELSE [w3 EXCEPT !.c.functions = insert(@, function_name, w3.ret),
                            !.c.function.functions_count = @ + 1]
        header(w2, function_name) ==
            signature(IF ok(w2) /\ check(w2, "Colon")
                      THEN header_arguments(recur("advance", w2, 0), FunctionInfo_new(function_name))
                      ELSE [w2 EXCEPT !.ret = FunctionInfo_new(function_name)],
                      function_name)
        named(w1) ==
            header(IF ~ok(w1) THEN w1
                   ELSE [w1 EXCEPT !.c.locals[w1.ret + 1].is_initialized = TRUE],
                   w1.p.previous.lexeme)
    IN  named(parse_variable(w, "Expect function name.", "TypeFunction"))

globals_declaration(w) ==
    LET recover(w1) == IF w1.p.panic_mode THEN synchronize(w1) ELSE w1
    IN  recover(IF w.p.current.type = "Identifier"
                   /\ (w.p.next.type = "Colon" \/ w.p.next.type = "LeftBrace")
                THEN function_declaration(w)
                ELSE recur("advance", w, 0))

\* the two while loops of Compiler::compile
RECURSIVE first_pass(_)
first_pass(w) ==
    IF ~ok(w) THEN w
    ELSE IF check(w, "Eof") THEN recur("advance", w, 0)
    ELSE first_pass(globals_declaration(w))

RECURSIVE second_pass(_)
second_pass(w) ==
    IF ~ok(w) THEN w
    ELSE IF check(w, "Eof") THEN recur("advance", w, 0)
    ELSE second_pass(recur("declaration", w, 0))

\* Compiler::compile on a new Compiler, as VM::interpret calls it, with the
\* process-wide parser as the last compilation left it.  ret is the
\* function returned.
compile(p, source) ==
    LET w0 == [p |-> [p EXCEPT !.scanner = Scanner_new(source)],
               c |-> Compiler_new,
               status |-> "ok", ret |-> 0,
               diags |-> <<>>, pass |-> 1, decls |-> <<>>, refs |-> <<>>, window |-> {},
               consumed |-> <<>>, events |-> <<>>]
        compiled(w3) ==
            IF ~ok(w3) THEN w3
            ELSE IF w3.p.had_error
            THEN [w3 EXCEPT !.c.function.chunk.had_error = TRUE,
                            !.ret.chunk.had_error = TRUE]
            ELSE w3
        declared(w1) ==
            compiled(end_compiler(second_pass(
                IF ~ok(w1) THEN w1
                ELSE note([w1 EXCEPT !.p = Parser_reset(@), !.pass = 2],
                          \* what the first pass leaves in the compiler
                          [event |-> "first_pass",
                           code |-> w1.c.function.chunk.code,
                           constants |-> w1.c.function.chunk.constants,
                           functions_count |-> w1.c.function.functions_count,
                           functions |-> DOMAIN w1.c.functions,
                           locals |-> w1.c.locals]))))
    IN  declared(first_pass(start_compiler(w0)))


\* recur(name, w, arg) is the call of the function named: of Compiler::compile
\* on the parser w and the source arg, of Parser::advance, and of
\* parse_precendence, statement and declaration from the functions they call
recur(name, w, arg) ==
    CASE name = "parse_precendence" -> parse_precendence(w, arg)
      [] name = "statement" -> statement(w)
      [] name = "declaration" -> declaration(w)
      [] name = "advance" -> advance(w)
      [] name = "compile" -> compile(w, arg)


(***************************************************************************)
(* value.rs: the operators on values.  An arithmetic result is             *)
(* [tag |-> "Ok", v |-> value] or an Err with its message; "panic" is a    *)
(* Rust panic.                                                             *)
(***************************************************************************)
Ok(v) == [tag |-> "Ok", v |-> v]

\* Err(format!("Unsupported {} operation on types {} and {}", ...))
Err(operation, a, b) ==
    [tag |-> "Err", v |-> ValNone,
     message |-> <<"Unsupported", operation, "operation on types", type_of(a), "and",
                   type_of(b)>>]

\* an Integer widened to f64 (b as f64)
as_f64(v) == IF v.kind = "Integer" THEN Float(v.i, 1) ELSE v

\* f64 arithmetic on fractions; a zero denominator is an infinity (n # 0)
\* or a NaN (n = 0)
f64_add(a, b) ==
    IF a.d = 0 \/ b.d = 0
    THEN (IF a.d = 0 /\ b.d = 0 /\ a.n # b.n THEN Float(0, 0) ELSE IF a.d = 0 THEN a ELSE b)
    ELSE Ratio(a.n * b.d + b.n * a.d, a.d * b.d)

f64_neg(a) == Float(-a.n, a.d)

f64_sub(a, b) == f64_add(a, f64_neg(b))

Sign(n) == IF n > 0 THEN 1 ELSE IF n < 0 THEN -1 ELSE 0

f64_mul(a, b) ==
    IF a.d = 0 \/ b.d = 0 THEN Float(Sign(a.n) * Sign(b.n), 0)
    ELSE Ratio(a.n * b.n, a.d * b.d)

f64_div(a, b) ==
    IF a.d = 0 \/ b.d = 0
    THEN (IF a.d = 0 /\ b.d = 0 THEN Float(0, 0)
          ELSE IF a.d = 0 THEN Float(a.n * (IF b.n < 0 THEN -1 ELSE 1), 0)
          ELSE IF b.n = 0 THEN Float(0, 0) ELSE Float(0, 1))
    ELSE IF b.n = 0 THEN Float(Sign(a.n), 0)
    ELSE Ratio(a.n * b.d, a.d * b.n)

\* f64::partial_cmp: "Less", "Equal", "Greater", or "None" on a NaN
f64_partial_cmp(a, b) ==
    IF (a.d = 0 /\ a.n = 0) \/ (b.d = 0 /\ b.n = 0) THEN "None"
    ELSE IF a.d = 0 \/ b.d = 0
    THEN (IF a.d = 0 /\ b.d = 0
          THEN (IF a.n < b.n THEN "Less" ELSE IF a.n > b.n THEN "Greater" ELSE "Equal")
          ELSE IF a.d = 0 THEN (IF a.n < 0 THEN "Less" ELSE "Greater")
          ELSE (IF b.n < 0 THEN "Greater" ELSE "Less"))
    ELSE IF a.n * b.d < b.n * a.d THEN "Less"
    ELSE IF a.n * b.d > b.n * a.d THEN "Greater"
    ELSE "Equal"

RECURSIVE repeat(_, _)
repeat(s, n) == IF n <= 0 THEN <<>> ELSE s \o repeat(s, n - 1)

\* impl Add for Value
add(a, b) ==
    CASE a.kind = "Float" /\ b.kind = "Float" -> Ok(f64_add(a, b))
      [] a.kind = "Integer" /\ b.kind = "Integer" -> Ok(Integer(a.i + b.i))
      [] a.kind = "Float" /\ b.kind = "Integer" -> Ok(f64_add(a, as_f64(b)))
      [] a.kind = "Integer" /\ b.kind = "Float" -> Ok(f64_add(as_f64(a), b))
      [] a.kind = "String" /\ b.kind = "String" -> Ok(String(a.s \o b.s))
      [] OTHER -> Err("add", a, b)

\* impl Sub for Value
sub(a, b) ==
    CASE a.kind = "Float" /\ b.kind = "Float" -> Ok(f64_sub(a, b))
      [] a.kind = "Integer" /\ b.kind = "Integer" -> Ok(Integer(a.i - b.i))
      [] a.kind = "Float" /\ b.kind = "Integer" -> Ok(f64_sub(a, as_f64(b)))
      [] a.kind = "Integer" /\ b.kind = "Float" -> Ok(f64_sub(as_f64(a), b))
      [] OTHER -> Err("substract", a, b)

\* impl Mul for Value; String::repeat of a negative count (as usize, a
\* count near 2^64) panics on the capacity
mul(a, b) ==
    CASE a.kind = "Float" /\ b.kind = "Float" -> Ok(f64_mul(a, b))
      [] a.kind = "Integer" /\ b.kind = "Integer" -> Ok(Integer(a.i * b.i))
      [] a.kind = "Float" /\ b.kind = "Integer" -> Ok(f64_mul(a, as_f64(b)))
      [] a.kind = "Integer" /\ b.kind = "Float" -> Ok(f64_mul(as_f64(a), b))
      [] a.kind = "Integer" /\ b.kind = "String" ->
            IF a.i < 0 /\ b.s # <<>> THEN [tag |-> "panic", v |-> ValNone]
            ELSE Ok(String(repeat(b.s, a.i)))
      [] a.kind = "String" /\ b.kind = "Integer" ->
            IF b.i < 0 /\ a.s # <<>> THEN [tag |-> "panic", v |-> ValNone]
            ELSE Ok(String(repeat(a.s, b.i)))
      [] OTHER -> Err("multiply", a, b)

\* a division that stays in the integers on two integers
div_keeps_integers(a, b) ==
    IF a.kind = "Integer" /\ b.kind = "Integer" THEN Ok(Integer(a.i))
    ELSE Err("divide", a, b)

\* impl Div for Value
div(a, b) ==
    CASE a.kind = "Float" /\ b.kind = "Float" -> Ok(f64_div(a, b))
      [] a.kind = "Integer" /\ b.kind = "Integer" -> Ok(f64_div(as_f64(a), as_f64(b)))
      [] a.kind = "Float" /\ b.kind = "Integer" -> Ok(f64_div(a, as_f64(b)))
      [] a.kind = "Integer" /\ b.kind = "Float" -> Ok(f64_div(as_f64(a), b))
      [] OTHER -> Err("divide", a, b)

\* impl Neg for Value, on a number
neg(a) == IF a.kind = "Float" THEN f64_neg(a) ELSE Integer(-a.i)

\* impl Not for Value
not(a) == IF is_truthy(a) THEN ValFalse ELSE ValTrue

\* impl PartialEq for Value
eq(a, b) ==
    CASE a.kind = "Float" /\ b.kind = "Float" -> f64_partial_cmp(a, b) = "Equal"
      [] a.kind = "Integer" /\ b.kind = "Integer" -> a.i = b.i
      [] a.kind = "String" /\ b.kind = "String" -> a.s = b.s
      [] a.kind = "True" /\ b.kind = "True" -> TRUE
      [] a.kind = "False" /\ b.kind = "False" -> TRUE
      [] a.kind = "None" /\ b.kind = "None" -> TRUE
      [] OTHER -> FALSE

\* impl PartialOrd for Value
partial_cmp(a, b) ==
    CASE a.kind = "Float" /\ b.kind = "Float" -> f64_partial_cmp(a, b)
      [] a.kind = "Integer" /\ b.kind = "Integer" ->
            IF a.i < b.i THEN "Less" ELSE IF a.i > b.i THEN "Greater" ELSE "Equal"
      [] a.kind = "Float" /\ b.kind = "Integer" -> f64_partial_cmp(a, as_f64(b))
      [] a.kind = "Integer" /\ b.kind = "Float" -> f64_partial_cmp(as_f64(a), b)
      [] OTHER -> "None"

\* the operators >, >=, <, <= that PartialOrd derives from partial_cmp
gt(a, b) == partial_cmp(a, b) = "Greater"

ge(a, b) == partial_cmp(a, b) \in {"Greater", "Equal"}

lt(a, b) == partial_cmp(a, b) = "Less"

le(a, b) == partial_cmp(a, b) \in {"Less", "Equal"}

Bool(b) == IF b THEN ValTrue ELSE ValFalse


(***************************************************************************)
(* vm.rs.  frames is VM::frames, the last frame the current one.  A frame  *)
(* also notes, as history, the interpret call that pushed it (owner).      *)
(* One turn of the loop of VM::run gives a Turn: the frames after it, what *)
(* run returned ("none" while the loop goes on, "panic" for a Rust panic), *)
(* the values printed and the runtime fault the VM detected, if any.       *)
(***************************************************************************)
CallFrame(func, slots, owner) ==
    [ip |-> 0, function |-> func, slots |-> slots, owner |-> owner]

Turn(fs, res, out, fault) == [frames |-> fs, result |-> res, out |-> out, fault |-> fault]

Panic(fs) == Turn(fs, "panic", <<>>, "none")

current_frame(fs) == fs[Len(fs)]

set_frame(fs, frame) == [fs EXCEPT ![Len(fs)] = frame]

push(frame, value) == [frame EXCEPT !.slots = Append(@, value)]

\* the frame without the last n slots
drop(frame, n) == [frame EXCEPT !.slots = SubSeq(@, 1, Len(@) - n)]

top(frame) == frame.slots[Len(frame.slots)]

\* VM::peek(distance) on a frame that has the slot
VM_peek(frame, distance) == frame.slots[Len(frame.slots) - distance]

Continue(fs, frame) == Turn(set_frame(fs, frame), "none", <<>>, "none")

\* VM::runtime_error followed by the return of `res`
Fault(fs, frame, res, fault) == Turn(set_frame(fs, frame), res, <<>>, fault)

\* the operator a binary_op! arm of VM::run passes to the macro
arithmetic(op, a, b) ==
    CASE op = "OpAdd" -> add(a, b)
      [] op = "OpSubtract" -> sub(a, b)
      [] op = "OpMultiply" -> mul(a, b)
      [] op = "OpDivide" -> div(a, b)

\* macro binary_op!
binary_op(fs, frame, op) ==
    IF Len(frame.slots) < 2 THEN Panic(fs)
    ELSE LET b == VM_peek(frame, 0)
             a == VM_peek(frame, 1)
             val == arithmetic(op, a, b)
             popped == drop(frame, 2)
         IN  CASE val.tag = "Ok" -> Continue(fs, push(popped, val.v))
               [] val.tag = "Err" -> Fault(fs, popped, "RuntimeError", "arithmetic")
               [] OTHER -> Panic(fs)

ne(a, b) == ~eq(a, b)

\* the Rust comparison an arm OpEqual .. OpLessEqual of VM::run evaluates
comparison(op, a, b) ==
    CASE op = "OpEqual" -> eq(a, b)
      [] op = "OpNotEqual" -> ne(a, b)
      [] op = "OpGreater" -> gt(a, b)
      [] op = "OpGreaterEqual" -> ge(a, b)
      [] op = "OpLess" -> lt(a, b)
      [] op = "OpLessEqual" -> le(a, b)

\* the arms OpEqual .. OpLessEqual of VM::run
compare_op(fs, frame, op) ==
    IF Len(frame.slots) < 2 THEN Panic(fs)
    ELSE LET b == VM_peek(frame, 0)
             a == VM_peek(frame, 1)
         IN  Continue(fs, push(drop(frame, 2), Bool(comparison(op, a, b))))

\* VM::call: the callee's frame is the first functions_count slots of the
\* caller followed by the arguments split off the caller's slots
VM_call(fs, frame, func, owner) ==
    LET arg_count == Len(func.function_info.arg_names) IN
    IF arg_count > Len(frame.slots) THEN Panic(fs)
    ELSE IF frame.function.functions_count > Len(frame.slots) THEN Panic(fs)
    ELSE LET at == Len(frame.slots) - arg_count
             new_slots == SubSeq(frame.slots, 1, frame.function.functions_count)
                          \o SubSeq(frame.slots, at + 1, Len(frame.slots))
             caller == [frame EXCEPT !.slots = SubSeq(@, 1, at)]
         IN  Turn(Append(set_frame(fs, caller), CallFrame(func, new_slots, owner)),
                  "none", <<>>, "none")

\* VM::call_value
call_value(fs, frame, arg_count, owner) ==
    IF arg_count >= Len(frame.slots) THEN Panic(fs)
    ELSE LET value == VM_peek(frame, arg_count) IN
         IF value.kind = "ObjFunction" THEN VM_call(fs, frame, value.fn, owner)
         ELSE Fault(fs, frame, "RuntimeError", "callee")

\* The arms of VM::run that read an operand word: f is the frame after the
\* opcode was read, and read_byte is todo!() at the end of the code.
operand_op(fs, f, instruction, owner) ==
    LET code == f.function.chunk.code IN
    IF f.ip >= Len(code) THEN Panic(fs)
    ELSE LET word == code[f.ip + 1]
             frame == [f EXCEPT !.ip = @ + 1]
             op == instruction.op
         IN  CASE op = "OpConstant" ->
                    IF word.op # "Number" \/ word.n >= Len(frame.function.chunk.constants)
                    THEN Panic(fs)
                    ELSE Continue(fs, push(frame, frame.function.chunk.constants[word.n + 1]))
               [] op = "OpSet" ->
                    IF word.op # "Number" THEN Fault(fs, frame, "CompileError", "opcode")
                    ELSE IF word.n = usize_MAX
                    THEN Fault(fs, frame, "RuntimeError", "slot")
                    ELSE IF frame.slots = <<>> \/ word.n >= Len(frame.slots) THEN Panic(fs)
                    ELSE Continue(fs, [frame EXCEPT !.slots[word.n + 1] = top(frame)])
               [] op = "OpGet" ->
                    IF word.op # "Number" THEN Fault(fs, frame, "CompileError", "opcode")
                    ELSE IF word.n = usize_MAX
                    THEN Fault(fs, frame, "RuntimeError", "slot")
                    ELSE IF word.n >= Len(frame.slots) THEN Panic(fs)
                    ELSE Continue(fs, push(frame, frame.slots[word.n + 1]))
               [] op \in {"OpJumpIfTrue", "OpJumpIfFalse"} ->
                    IF word.op # "Number" \/ frame.slots = <<>> THEN Panic(fs)
                    ELSE IF is_truthy(top(frame)) = (op = "OpJumpIfTrue")
                    THEN Continue(fs, [frame EXCEPT !.ip = @ + word.n])
                    ELSE Continue(fs, frame)
               [] op = "OpJump" ->
                    IF word.op # "Number" THEN Panic(fs)
                    ELSE Continue(fs, [frame EXCEPT !.ip = @ + word.n])
               [] op = "OpLoop" ->
                    \* ip -= offset below 0 panics in a debug build and wraps in
                    \* a release build, where the next read_byte is todo!()
                    IF word.op # "Number" \/ word.n > frame.ip THEN Panic(fs)
                    ELSE Continue(fs, [frame EXCEPT !.ip = @ - word.n])
               [] op = "OpCall" ->
                    IF word.op # "Number" THEN Panic(fs)
                    ELSE call_value(fs, frame, word.n, owner)

\* the arm OpCode::OpReturn of VM::run: slots.pop().unwrap() panics on an
\* empty stack
op_return(fs, frame) ==
    IF frame.slots = <<>> THEN Panic(fs)
    ELSE LET res == top(frame)
             rest == SubSeq(fs, 1, Len(fs) - 1)
         IN  IF rest = <<>> THEN Turn(rest, "Ok", <<>>, "none")
             ELSE Continue(rest, push(current_frame(rest), res))

OperandOps ==
    {"OpConstant", "OpSet", "OpGet", "OpJumpIfTrue", "OpJumpIfFalse", "OpJump",
     "OpLoop", "OpCall"}

\* One turn of the loop of VM::run on the current frame.  owner is the
\* interpret call that runs.
run_turn(fs, owner) ==
    LET f == current_frame(fs)
        code == f.function.chunk.code
    IN  IF f.ip >= Len(code) THEN Panic(fs)
        ELSE
        LET instruction == code[f.ip + 1]
            frame == [f EXCEPT !.ip = @ + 1]
            op == instruction.op
        IN  CASE op \in OperandOps -> operand_op(fs, frame, instruction, owner)
              [] op \in {"OpAdd", "OpSubtract", "OpMultiply", "OpDivide"} ->
                    binary_op(fs, frame, op)
              [] op \in {"OpEqual", "OpNotEqual", "OpGreater", "OpGreaterEqual",
                         "OpLess", "OpLessEqual"} ->
                    compare_op(fs, frame, op)
              [] op = "OpNot" ->
                    IF frame.slots = <<>> THEN Panic(fs)
                    ELSE Continue(fs, push(drop(frame, 1), not(top(frame))))
              [] op = "OpTrue" -> Continue(fs, push(frame, ValTrue))
              [] op = "OpFalse" -> Continue(fs, push(frame, ValFalse))
              [] op = "OpNone" -> Continue(fs, push(frame, ValNone))
              [] op = "OpPrint" ->
                    IF frame.slots = <<>> THEN Panic(fs)
                    ELSE Turn(set_frame(fs, drop(frame, 1)), "none", <<top(frame)>>, "none")
              [] op = "OpNegate" ->
                    IF frame.slots = <<>> THEN Panic(fs)
                    ELSE IF ~is_number(top(frame))
                    THEN Fault(fs, frame, "RuntimeError", "negate")
                    ELSE Continue(fs, push(drop(frame, 1), neg(top(frame))))
              [] op = "OpEof" -> Turn(set_frame(fs, frame), "Ok", <<>>, "none")
              [] op = "OpEol" -> Continue(fs, frame)
              [] op = "OpPop" ->
                    Continue(fs, IF frame.slots = <<>> THEN frame ELSE drop(frame, 1))
              [] op = "OpReturn" -> op_return(fs, frame)
              [] OTHER -> Fault(fs, frame, "CompileError", "opcode")


(***************************************************************************)
(* The sources the model runs.  Files holds whole files (run_file), Lines  *)
(* the lines typed at the REPL (repl): read_line keeps the line's newline. *)
(***************************************************************************)
\* print 1 + 2\n   (scenario 1)
file_print_sum ==
    <<"p", "r", "i", "n", "t", " ", "1", " ", "+", " ", "2", "\n">>

\* int x = 10\nint y = 32\nprint x + y\n   (scenario 2)
file_two_locals ==
    <<"i", "n", "t", " ", "x", " ", "=", " ", "1", "0", "\n", "i", "n", "t",
      " ", "y", " ", "=", " ", "3", "2", "\n", "p", "r", "i", "n", "t", " ",
      "x", " ", "+", " ", "y", "\n">>

\* square : int x { print x * x\n }\nsquare(7)\n   (scenario 5: the definition before the call)
file_square ==
    <<"s", "q", "u", "a", "r", "e", " ", ":", " ", "i", "n", "t", " ", "x",
      " ", "{", " ", "p", "r", "i", "n", "t", " ", "x", " ", "*", " ", "x",
      "\n", " ", "}", "\n", "s", "q", "u", "a", "r", "e", "(", "7", ")",
      "\n">>

\* square(7)\nsquare : int x { print x * x\n }\n   (scenario 5: the call before the definition)
file_square_called_first ==
    <<"s", "q", "u", "a", "r", "e", "(", "7", ")", "\n", "s", "q", "u", "a",
      "r", "e", " ", ":", " ", "i", "n", "t", " ", "x", " ", "{", " ", "p",
      "r", "i", "n", "t", " ", "x", " ", "*", " ", "x", "\n", " ", "}", "\n">>

\* int x = "hi"\n   (scenario 6)
file_int_gets_string ==
    <<"i", "n", "t", " ", "x", " ", "=", " ", "\"", "h", "i", "\"", "\n">>

\* f : x {\n}\n   (a function header whose parameter has no type annotation)
file_untyped_parameter ==
    <<"f", " ", ":", " ", "x", " ", "{", "\n", "}", "\n">>

\* bool b = 1 < 2\n   (a bool local assigned a comparison)
file_bool_gets_comparison ==
    <<"b", "o", "o", "l", " ", "b", " ", "=", " ", "1", " ", "<", " ", "2",
      "\n">>

\* string s = "a"\nint x = 5\nint y = s\n   (an int local assigned a string local)
file_int_gets_string_local ==
    <<"s", "t", "r", "i", "n", "g", " ", "s", " ", "=", " ", "\"", "a", "\"",
      "\n", "i", "n", "t", " ", "x", " ", "=", " ", "5", "\n", "i", "n", "t",
      " ", "y", " ", "=", " ", "s", "\n">>

\* print 1\nint x\nprint 2\n   (a typed declaration without initializer)
file_typed_declaration ==
    <<"p", "r", "i", "n", "t", " ", "1", "\n", "i", "n", "t", " ", "x", "\n",
      "p", "r", "i", "n", "t", " ", "2", "\n">>

\* print 1\n@\n   (a stray character)
file_stray_character ==
    <<"p", "r", "i", "n", "t", " ", "1", "\n", "@", "\n">>

\* print "a\n   (an unterminated string)
file_unterminated_string ==
    <<"p", "r", "i", "n", "t", " ", "\"", "a", "\n">>

\* f : int x { }\nf(1, 2)\n   (a call with more arguments than parameters)
file_too_many_arguments ==
    <<"f", " ", ":", " ", "i", "n", "t", " ", "x", " ", "{", " ", "}", "\n",
      "f", "(", "1", ",", " ", "2", ")", "\n">>

\* f : int x { }\nf()\nint y = "s"\n   (a call with fewer arguments than parameters)
file_too_few_arguments ==
    <<"f", " ", ":", " ", "i", "n", "t", " ", "x", " ", "{", " ", "}", "\n",
      "f", "(", ")", "\n", "i", "n", "t", " ", "y", " ", "=", " ", "\"", "s",
      "\"", "\n">>

\* g()\nint y = "s"\n   (a call of a name with no signature)
file_unknown_function ==
    <<"g", "(", ")", "\n", "i", "n", "t", " ", "y", " ", "=", " ", "\"", "s",
      "\"", "\n">>

\* g(1)\n   (a call of a name with no signature, with an argument)
file_unknown_function_argument ==
    <<"g", "(", "1", ")", "\n">>

\* print -"a"\n   (negation of a string)
file_negate_string ==
    <<"p", "r", "i", "n", "t", " ", "-", "\"", "a", "\"", "\n">>

\* 1\nf()\nf { }\n   (slot 0 holds an integer when f is called)
file_call_integer ==
    <<"1", "\n", "f", "(", ")", "\n", "f", " ", "{", " ", "}", "\n">>

\* x = 1 while x 2\n   (a while loop compiled right after an operand word)
file_loop_after_operand ==
    <<"x", " ", "=", " ", "1", " ", "w", "h", "i", "l", "e", " ", "x", " ",
      "2", "\n">>

\* print "a" < 1\n   (an ordering comparison on a string)
file_compare_string ==
    <<"p", "r", "i", "n", "t", " ", "\"", "a", "\"", " ", "<", " ", "1",
      "\n">>

\* print 1 < 2.5\nprint 3 >= 3\n   (ordering comparisons on numbers)
file_compare_widening ==
    <<"p", "r", "i", "n", "t", " ", "1", " ", "<", " ", "2", ".", "5", "\n",
      "p", "r", "i", "n", "t", " ", "3", " ", ">", "=", " ", "3", "\n">>

\* int n = 0\nwhile n < 3 { print n\n n = n + 1\n }\n   (scenario 3)
file_while ==
    <<"i", "n", "t", " ", "n", " ", "=", " ", "0", "\n", "w", "h", "i", "l",
      "e", " ", "n", " ", "<", " ", "3", " ", "{", " ", "p", "r", "i", "n",
      "t", " ", "n", "\n", " ", "n", " ", "=", " ", "n", " ", "+", " ", "1",
      "\n", " ", "}", "\n">>

\* if 1 < 2 { print "a"\n } else { print "b"\n }\n   (scenario 4)
file_if_else ==
    <<"i", "f", " ", "1", " ", "<", " ", "2", " ", "{", " ", "p", "r", "i",
      "n", "t", " ", "\"", "a", "\"", "\n", " ", "}", " ", "e", "l", "s",
      "e", " ", "{", " ", "p", "r", "i", "n", "t", " ", "\"", "b", "\"",
      "\n", " ", "}", "\n">>

line_print_sum == file_print_sum

\* print 1 + "a"\n   (addition of an integer and a string)
line_add_string ==
    <<"p", "r", "i", "n", "t", " ", "1", " ", "+", " ", "\"", "a", "\"",
      "\n">>

\* print 2\n
line_print ==
    <<"p", "r", "i", "n", "t", " ", "2", "\n">>

line_int_gets_string == file_int_gets_string

\* f {\n}\nprint f == f\n
file_function_equals_itself ==
    <<"f", " ", "{", "\n", "}", "\n", "p", "r", "i", "n", "t", " ", "f",
      " ", "=", "=", " ", "f", "\n">>

\* f { while true 1 }\nf()\n
file_loop_at_body_start ==
    <<"f", " ", "{", " ", "w", "h", "i", "l", "e", " ", "t", "r", "u", "e",
      " ", "1", " ", "}", "\n", "f", "(", ")", "\n">>

\* x = x + 1\nprint x\n
file_initializer_reads_itself ==
    <<"x", " ", "=", " ", "x", " ", "+", " ", "1", "\n", "p", "r", "i",
      "n", "t", " ", "x", "\n">>

\* x = y + x\nprint x\n
file_initializer_reads_unknown_first ==
    <<"x", " ", "=", " ", "y", " ", "+", " ", "x", "\n", "p", "r", "i",
      "n", "t", " ", "x", "\n">>

\* { print 1\n
file_block_never_closed ==
    <<"{", " ", "p", "r", "i", "n", "t", " ", "1", "\n">>

\* print (1 + 2\n
file_grouping_never_closed ==
    <<"p", "r", "i", "n", "t", " ", "(", "1", " ", "+", " ", "2", "\n">>

\* print 1 + 2 != 3\n
file_sum_not_equal ==
    <<"p", "r", "i", "n", "t", " ", "1", " ", "+", " ", "2", " ", "!", "=",
      " ", "3", "\n">>

\* g { }\nf: int a { print a\n}\ng = f\ng()\n
file_rebound_function_called ==
    <<"g", " ", "{", " ", "}", "\n", "f", ":", " ", "i", "n", "t", " ",
      "a", " ", "{", " ", "p", "r", "i", "n", "t", " ", "a", "\n", "}",
      "\n", "g", " ", "=", " ", "f", "\n", "g", "(", ")", "\n">>

\* x = y +\n+ 2\nprint 3\n
file_operator_starts_next_line ==
    <<"x", " ", "=", " ", "y", " ", "+", "\n", "+", " ", "2", "\n", "p",
      "r", "i", "n", "t", " ", "3", "\n">>

\* { {\na = 1\nf: int p { { } }\n} }\n
file_function_below_deeper_local ==
    <<"{", " ", "{", "\n", "a", " ", "=", " ", "1", "\n", "f", ":", " ",
      "i", "n", "t", " ", "p", " ", "{", " ", "{", " ", "}", " ", "}",
      "\n", "}", " ", "}", "\n">>

\* f { }\nif f {\nprint 1\n}\n
file_function_as_condition ==
    <<"f", " ", "{", " ", "}", "\n", "i", "f", " ", "f", " ", "{", "\n",
      "p", "r", "i", "n", "t", " ", "1", "\n", "}", "\n">>

\* a = 1\nf { }\nprint a\n
file_local_before_function ==
    <<"a", " ", "=", " ", "1", "\n", "f", " ", "{", " ", "}", "\n", "p",
      "r", "i", "n", "t", " ", "a", "\n">>

\* x = 1\nif x == 1 { print x\n }\nprint x\n
file_if_above_local ==
    <<"x", " ", "=", " ", "1", "\n", "i", "f", " ", "x", " ", "=", "=",
      " ", "1", " ", "{", " ", "p", "r", "i", "n", "t", " ", "x", "\n",
      " ", "}", "\n", "p", "r", "i", "n", "t", " ", "x", "\n">>

\* f { }\n
line_function ==
    <<"f", " ", "{", " ", "}", "\n">>

Files ==
    {file_print_sum, file_two_locals, file_square, file_square_called_first,
     file_int_gets_string, file_untyped_parameter, file_bool_gets_comparison,
     file_int_gets_string_local, file_typed_declaration,
     file_stray_character, file_unterminated_string, file_too_many_arguments,
     file_too_few_arguments, file_unknown_function,
     file_unknown_function_argument, file_negate_string, file_call_integer,
     file_loop_after_operand, file_compare_string, file_compare_widening,
     file_while, file_if_else,
     file_function_equals_itself,
     file_loop_at_body_start,
     file_initializer_reads_itself,
     file_initializer_reads_unknown_first,
     file_block_never_closed,
     file_grouping_never_closed,
     file_sum_not_equal,
     file_rebound_function_called,
     file_operator_starts_next_line,
     file_function_below_deeper_local,
     file_function_as_condition,
     file_local_before_function,
     file_if_above_local}

Lines ==
    {line_print_sum, line_add_string, line_print, line_int_gets_string,
     line_function}

(***************************************************************************)
(* main.rs and VM::interpret.  pc is where the process is: "main" (before  *)
(* the file is run, or at the prompt of the REPL), "running" (in the loop  *)
(* of VM::run), "exit" (run_file has returned), "crashed" (a panic) or     *)
(* "hung".  unit holds what the last compile call returned and the history *)
(* of it; last holds the last turn of the VM.                              *)
(***************************************************************************)
NoUnit ==
    [source |-> <<>>, status |-> "none", function |-> ObjFunction_new,
     diags |-> <<>>, decls |-> <<>>, refs |-> <<>>, consumed |-> <<>>, events |-> <<>>,
     locals |-> <<>>]

\* the events of the unit named event
events_of(event) == {i \in 1..Len(unit.events) : unit.events[i].event = event}

NoTurn == [op |-> "none", owner |-> 0, chunk |-> <<>>, function |-> ObjFunction_new,
           depth |-> 0, ip |-> 0, slots |-> <<>>,
           fault |-> "none", result |-> "none", assigned |-> EmptyMap,
           entered |-> EmptyMap]

\* the depth of the stack at the last entry of each if statement, by frame
\* depth and event of the statement, when frame at this depth is about to
\* make a turn
entered_before(entered, frame, depth, owner) ==
    LET ifs == {i \in events_of("if") :
                    /\ frame.owner = owner
                    /\ unit.events[i].chunk = frame.function.name
                    /\ unit.events[i].start = frame.ip}
    IN  [k \in DOMAIN entered \cup {<<depth, i>> : i \in ifs} |->
            IF k[1] = depth /\ k[2] \in ifs THEN Len(frame.slots) ELSE entered[k]]

\* the values the OpSet turns stored so far, by frame depth and slot, after
\* the turn that frame at this depth made: an OpSet stores the top of the
\* stack, a call and a return leave the frames above their caller
assigned_after(assigned, frame, depth, turn) ==
    LET op == frame.function.chunk.code[frame.ip + 1].op
        kept(bound) ==
            [k \in {k \in DOMAIN assigned : k[1] <= bound} |-> assigned[k]]
    IN  IF turn.result # "none" THEN assigned
        ELSE IF op = "OpSet"
        THEN insert(assigned, <<depth, frame.function.chunk.code[frame.ip + 2].n>>,
                    top(frame))
        ELSE IF op = "OpCall" THEN kept(depth)
        ELSE IF op = "OpReturn" THEN kept(depth - 1)
        ELSE assigned

Init ==
    /\ parser = Parser_new(<<>>)
    /\ frames = <<>>
    /\ pc = "main"
    /\ mode = "none"
    /\ result = "none"
    /\ output = <<>>
    /\ calls = 0
    /\ steps = 0
    /\ last = NoTurn
    /\ unit = NoUnit
    /\ the_chunk = Chunk_new
    /\ lines_written = <<>>
    /\ patches = <<>>

\* where the process goes when interpret returns
after_interpret(m) == IF m = "file" THEN "exit" ELSE "main"

\* VM::interpret(source), called by run_file (m = "file") or repl
interpret(source, m) ==
    LET compiled(w, func) ==
            /\ parser' = w.p
            /\ calls' = calls + 1
            /\ unit' = [source |-> source, status |-> w.status,
                        function |-> IF ok(w) THEN func ELSE ObjFunction_new,
                        diags |-> w.diags, decls |-> w.decls, refs |-> w.refs,
                        consumed |-> w.consumed, events |-> w.events,
                        locals |-> w.c.locals]
            /\ last' = NoTurn
            /\ IF ~ok(w)
               THEN /\ pc' = IF w.status = "hang" THEN "hung" ELSE "crashed"
                    /\ UNCHANGED <<frames, result>>
               ELSE IF had_error(func)
               THEN /\ result' = "CompileError"
                    /\ pc' = after_interpret(m)
                    /\ UNCHANGED frames
               ELSE /\ frames' = Append(frames, CallFrame(func, <<>>, calls + 1))
                    /\ result' = "none"
                    /\ pc' = "running"
            /\ UNCHANGED <<output, steps, the_chunk, lines_written, patches>>
        returned_by_compile(w) == compiled(w, w.ret)
    IN  returned_by_compile(recur("compile", parser, source))

\* main.rs run_file: one interpret call on the text of the file
run_file(source) ==
    /\ pc = "main"
    /\ mode = "none"
    /\ mode' = "file"
    /\ interpret(source, "file")

\* main.rs repl: one interpret call on the line read, its result ignored
repl(source) ==
    /\ pc = "main"
    /\ mode \in {"none", "repl"}
    /\ calls < MaxCalls
    /\ mode' = "repl"
    /\ interpret(source, "repl")

\* one turn of the loop of VM::run
run ==
    /\ pc = "running"
    /\ steps < MaxSteps
    /\ LET instruction(turn, frame) ==
               /\ frames' = turn.frames
               /\ output' = output \o turn.out
               /\ steps' = steps + 1
               /\ last' = [op |-> frame.function.chunk.code[frame.ip + 1].op,
                           owner |-> frame.owner,
                           chunk |-> frame.function.name,
                           function |-> frame.function,
                           depth |-> Len(frames),
                           ip |-> frame.ip,
                           slots |-> frame.slots,
                           fault |-> turn.fault,
                           result |-> turn.result,
                           assigned |-> assigned_after(last.assigned, frame,
                                                       Len(frames), turn),
                           entered |-> entered_before(last.entered, frame,
                                                      Len(frames), calls)]
               /\ IF turn.result = "none" THEN UNCHANGED <<pc, result>>
                  ELSE IF turn.result = "panic" THEN pc' = "crashed" /\ UNCHANGED result
                  ELSE pc' = after_interpret(mode) /\ result' = turn.result
       IN  instruction(run_turn(frames, calls), current_frame(frames))
    /\ UNCHANGED <<parser, calls, unit, mode, the_chunk, lines_written, patches>>

Next ==
    \/ \E source \in Files : run_file(source)
    \/ \E source \in Lines : repl(source)
    \/ run

Spec == Init /\ [][Next]_vars


(***************************************************************************)
(* A whole interpret call on a new process, as a function of the source:   *)
(* what run_file observes.  run_loop is the loop of VM::run, cut after     *)
(* MaxSteps turns.                                                         *)
(***************************************************************************)
RECURSIVE run_loop(_, _, _)
run_loop(fs, out, fuel) ==
    IF fuel = 0 THEN [result |-> "none", output |-> out]
    ELSE LET instruction(turn) ==
                 IF turn.result # "none"
                 THEN [result |-> turn.result, output |-> out \o turn.out]
                 ELSE run_loop(turn.frames, out \o turn.out, fuel - 1)
         IN  instruction(run_turn(fs, 1))

execute(source) ==
    LET compiled(w) ==
            IF ~ok(w) THEN [result |-> w.status, output |-> <<>>]
            ELSE IF had_error(w.ret) THEN [result |-> "CompileError", output |-> <<>>]
            ELSE run_loop(<<CallFrame(w.ret, <<>>, 1)>>, <<>>, MaxSteps)
    IN  compiled(recur("compile", Parser_new(<<>>), source))

\* whether the scanner produces an Error token somewhere in the source
RECURSIVE scans_error(_)
scans_error(sc) ==
    LET scanned(r) ==
            CASE r.tok.type = "Error" -> TRUE
              [] r.tok.type = "Eof" -> FALSE
              [] OTHER -> scans_error(r.sc)
    IN  scanned(scan_token(sc))

\* the interpret call whose outcome the state shows has returned or died
returned == calls >= 1 /\ pc # "running"

\* the frame VM::run works on is the script of the current interpret call
in_script == pc = "running" /\ frames # <<>>
             /\ current_frame(frames).owner = calls
             /\ current_frame(frames).function.name = <<>>

(***************************************************************************)
(* The claims                                                              *)
(***************************************************************************)

\* C1: when the function compile returns has had_error set, interpret
\* returns CompileError, pushes no call frame and executes no instruction:
\* no frame belongs to the call, and no turn of run was taken since it.
C1_had_error_refuses_to_execute ==
    (unit.status = "ok" /\ unit.function.chunk.had_error)
        => /\ result = "CompileError"
           /\ pc = after_interpret(mode)
           /\ last = NoTurn
           /\ \A i \in 1..Len(frames) : frames[i].owner # calls

\* C1 happens: a REPL line compiled with a diagnostic after an earlier line
\* ran, and a file compiled with a diagnostic
C1_witness ==
    /\ unit.status = "ok" /\ unit.function.chunk.had_error
    /\ result = "CompileError"
    /\ unit.diags # <<>>
    /\ calls = 2 /\ output # <<>>

\* C2: every diagnostic reported during a compile call, in pass 1 or in
\* pass 2, leaves had_error set on the chunk of the function returned
C2_diagnostic_sets_had_error ==
    (unit.status = "ok" /\ unit.diags # <<>>) => unit.function.chunk.had_error

\* C3: after a RuntimeError no instruction of the faulting program is
\* executed again: every instruction a later interpret call executes belongs
\* to a frame of that call, and its final OpReturn ends the run with Ok
C3_failed_program_never_resumes ==
    last.op # "none"
        => /\ last.owner = calls
           /\ (last.op = "OpReturn" /\ last.chunk = <<>>) => last.result = "Ok"

\* C4: the program that calls a global function before its definition
\* compiles without error and runs to the same result and output as the
\* program with the definition first
C4_call_before_definition ==
    (returned /\ mode = "file" /\ unit.source = file_square_called_first)
        => /\ unit.status = "ok" /\ ~unit.function.chunk.had_error
           /\ pc = "exit"
           /\ [result |-> result, output |-> output] = execute(file_square)

\* the sources whose typed assignments all give the local a value of a
\* kind in the annotation's compatibility set
WellTyped == {file_two_locals, file_bool_gets_comparison}

\* C5: an assignment to a local annotated T is accepted if and only if the
\* kind of the value assigned is in T's compatibility set: a well-typed
\* source compiles without error, and every OpSet an accepted script
\* executes stores a value its local's annotation admits
C5_typed_assignment_checked ==
    /\ (unit.status = "ok" /\ unit.source \in WellTyped)
           => ~unit.function.chunk.had_error
    /\ (last.op = "OpSet" /\ last.owner = calls /\ last.chunk = <<>>
            /\ last.result = "none" /\ mode = "file")
           => LET k == unit.function.chunk.code[last.ip + 2].n
                  value == last.slots[Len(last.slots)]
              IN  k < Len(unit.locals)
                      => is_correct_type(unit.locals[k + 1].type_, value)

\* the declarations of the script that have an annotation and no
\* initializer
TypedDeclarations ==
    {i \in 1..Len(unit.decls) :
        /\ unit.decls[i].chunk = <<>>
        /\ is_type(unit.decls[i].type_)
        /\ ~unit.decls[i].initializer}

\* C6: for a declaration with an annotation and no initializer the code
\* emitted ends with the push of the typed-none sentinel of the declared
\* type and an OpSet of the local's slot, and once the declaration has run
\* the slot exists in the frame and holds that sentinel
C6_typed_declaration_emits_sentinel ==
    (unit.status = "ok" /\ ~unit.function.chunk.had_error)
        => \A i \in TypedDeclarations :
              LET d == unit.decls[i]
                  chunk == unit.function.chunk
              IN  /\ d.end >= 4
                  /\ chunk.code[d.end - 3] = Op("OpConstant")
                  /\ chunk.constants[chunk.code[d.end - 2].n + 1] = get_none_type(d.type_)
                  /\ chunk.code[d.end - 1] = Op("OpSet")
                  /\ chunk.code[d.end] = Number(d.slot)
                  /\ (in_script /\ current_frame(frames).ip = d.end)
                        => /\ Len(current_frame(frames).slots) > d.slot
                           /\ current_frame(frames).slots[d.slot + 1] = get_none_type(d.type_)

\* C7: for every source in which the scanner produces an Error token the
\* compile call terminates and returns a function with had_error set, the
\* error reported as a diagnostic
C7_error_token_compile_terminates ==
    (calls >= 1 /\ scans_error(Scanner_new(unit.source)))
        => /\ unit.status = "ok"
           /\ unit.function.chunk.had_error
           /\ unit.diags # <<>>

\* the sources with a call whose argument count differs from the callee's
\* parameter count, or whose callee has no recorded signature
CallSiteMismatches ==
    {file_too_many_arguments, file_too_few_arguments, file_unknown_function,
     file_unknown_function_argument}

\* C8: at a call site with too few or too many arguments, or with a callee
\* of no recorded signature, the compiler records a diagnostic and compiles
\* on to the end of the source: the compile call is never aborted
C8_call_site_mismatch_never_aborts ==
    (calls >= 1 /\ unit.source \in CallSiteMismatches)
        => /\ unit.status = "ok"
           /\ unit.diags # <<>>
           /\ unit.function.chunk.had_error

\* C9: each runtime fault the VM detects (arithmetic operand types, negation
\* of a non-number, a non-function callee, a slot of usize::MAX, an unknown
\* opcode) stops run, which returns RuntimeError
C9_runtime_fault_returns_RuntimeError ==
    last.fault # "none" => (last.result = "RuntimeError" /\ result = "RuntimeError")

OrderingOps == {"OpGreater", "OpGreaterEqual", "OpLess", "OpLessEqual"}

\* C10: an ordering comparison with an operand that is not an Integer or a
\* Float makes run return RuntimeError and pushes no boolean; on two
\* numbers it goes on
C10_ordering_of_non_numbers_faults ==
    (last.op \in OrderingOps /\ Len(last.slots) >= 2)
        => LET b == last.slots[Len(last.slots)]
               a == last.slots[Len(last.slots) - 1]
           IN  IF is_number(a) /\ is_number(b)
               THEN /\ last.result = "none"
                    /\ frames # <<>>
                    /\ top(current_frame(frames)) \in {ValTrue, ValFalse}
               ELSE last.result = "RuntimeError"

(***************************************************************************)
(* The operands of the last turn: a is the left one, b the right one, the  *)
(* last slot.                                                              *)
(***************************************************************************)
left_operand == last.slots[Len(last.slots) - 1]

right_operand == last.slots[Len(last.slots)]

binary_turn(op) == last.op = op /\ Len(last.slots) >= 2

is_nan(v) == v.kind = "Float" /\ v.d = 0 /\ v.n = 0

\* values of every variant, two of each variant that holds a payload
SomeValues ==
    {Integer(1), Integer(2), Float(1, 2), Float(3, 2), String(<<>>), String(<<"a">>),
     ValTrue, ValFalse, ValNone, ObjFunction(ObjFunction_new)}

\* C11: what OpEqual pushes is an equivalence on the values of one variant
\* (a value other than NaN equals itself, the operands may be exchanged, and
\* a third value equal to the right operand equals the left one), for every
\* variant, Function included; values of different variants are unequal
C11_equality_is_an_equivalence ==
    (binary_turn("OpEqual") /\ last.result = "none")
        => LET a == left_operand
               b == right_operand
               equal == top(current_frame(frames)) = ValTrue
           IN  /\ a.kind # b.kind => ~equal
               /\ (a = b /\ ~is_nan(a)) => equal
               /\ equal = eq(b, a)
               /\ \A c \in SomeValues :
                      (c.kind = a.kind /\ equal /\ eq(b, c)) => eq(a, c)

(***************************************************************************)
(* The VM on two operands of any kinds: the script `print a op b` as the   *)
(* compiler emits it for two constants, with the constants drawn from      *)
(* Operands and the opcode from the binary opcodes, run from               *)
(* VM::interpret's first frame.                                            *)
(***************************************************************************)
ArithmeticOps == {"OpAdd", "OpSubtract", "OpMultiply", "OpDivide"}

ComparisonOps ==
    {"OpEqual", "OpNotEqual", "OpGreater", "OpGreaterEqual", "OpLess", "OpLessEqual"}

Operands ==
    {Integer(-1), Integer(0), Integer(2), Float(1, 2), Float(-3, 1), String(<<>>),
     String(<<"a", "b">>), ValTrue, ValFalse, ValNone, ObjFunction(ObjFunction_new)}

operand_script(op, a, b) ==
    [ObjFunction_new EXCEPT
        !.chunk.code = <<Op("OpConstant"), Number(0), Op("OpConstant"), Number(1),
                         Op(op), Op("OpPrint"), Op("OpEol"), Op("OpNone"),
                         Op("OpReturn")>>,
        !.chunk.lines = <<1, 9>>,
        !.chunk.constants = <<a, b>>]

OperandInit ==
    \E op \in ArithmeticOps \cup ComparisonOps, a \in Operands, b \in Operands :
        /\ parser = Parser_new(<<>>)
        /\ frames = <<CallFrame(operand_script(op, a, b), <<>>, 1)>>
        /\ pc = "running"
        /\ mode = "file"
        /\ result = "none"
        /\ output = <<>>
        /\ calls = 1
        /\ steps = 0
        /\ last = NoTurn
        /\ unit = [NoUnit EXCEPT !.status = "ok", !.function = operand_script(op, a, b)]
        /\ the_chunk = Chunk_new
        /\ lines_written = <<>>
        /\ patches = <<>>

OperandSpec == OperandInit /\ [][run]_vars

\* s repeated n times, read off the result r
is_repeated(r, s, n) ==
    /\ Len(r) = n * Len(s)
    /\ \A i \in 1..Len(r) : r[i] = s[((i - 1) % Len(s)) + 1]

\* C12: on every pair of operand kinds +, - and * give an Integer on two
\* Integers and a Float on every other pair of numbers, / gives a Float on
\* every pair of numbers, + on two Strings gives their concatenation, * on
\* an Integer n >= 0 and a String gives the string n times, and every other
\* pair gives an Err with a message; the VM pushes the Ok value and returns
\* RuntimeError on the Err
C12_arithmetic_by_kind ==
    (last.op \in ArithmeticOps /\ Len(last.slots) >= 2)
        => LET a == left_operand
               b == right_operand
               val == arithmetic(last.op, a, b)
           IN  /\ CASE is_number(a) /\ is_number(b) ->
                         /\ val.tag = "Ok"
                         /\ val.v.kind = IF last.op # "OpDivide" /\ a.kind = "Integer"
                                            /\ b.kind = "Integer"
                                         THEN "Integer" ELSE "Float"
                    [] last.op = "OpAdd" /\ a.kind = "String" /\ b.kind = "String" ->
                         val = Ok(String(a.s \o b.s))
                    [] last.op = "OpMultiply" /\ a.kind = "Integer" /\ b.kind = "String" ->
                         a.i >= 0 => (val.tag = "Ok" /\ val.v.kind = "String"
                                      /\ is_repeated(val.v.s, b.s, a.i))
                    [] last.op = "OpMultiply" /\ a.kind = "String" /\ b.kind = "Integer" ->
                         b.i >= 0 => (val.tag = "Ok" /\ val.v.kind = "String"
                                      /\ is_repeated(val.v.s, a.s, b.i))
                    [] OTHER -> val.tag = "Err" /\ val.message # <<>>
               /\ val.tag = "Ok" => (last.result = "none"
                                     /\ top(current_frame(frames)) = val.v)
               /\ val.tag = "Err" => (last.result = "RuntimeError"
                                      /\ last.fault = "arithmetic")

\* an Integer divided by an Integer has pushed a Float
C12_witness ==
    /\ binary_turn("OpDivide")
    /\ left_operand.kind = "Integer"
    /\ right_operand.kind = "Integer"
    /\ last.result = "none"
    /\ top(current_frame(frames)).kind = "Float"

(***************************************************************************)
(* The chunks of a compiled function: its own and, through its function    *)
(* constants, those of the functions declared in it.                        *)
(***************************************************************************)
RECURSIVE chunks_of(_)
chunks_of(func) ==
    {func.chunk} \cup
    UNION {chunks_of(func.chunk.constants[i].fn) :
             i \in {j \in 1..Len(func.chunk.constants) :
                      func.chunk.constants[j].kind = "ObjFunction"}}

\* the source was accepted: compile returned a function without had_error
accepted == unit.status = "ok" /\ ~had_error(unit.function)

ForwardJumps == {"OpJump", "OpJumpIfTrue", "OpJumpIfFalse"}

\* code[i] (the word at index i - 1 of the Vec) is a jump whose operand fits:
\* a forward jump lands at most one past the last word, a loop at index 0 or
\* later
jump_in_bounds(code, i) ==
    /\ code[i].op \in ForwardJumps
        => i < Len(code) /\ code[i + 1].op = "Number" /\ code[i + 1].n <= Len(code) - (i + 1)
    /\ code[i].op = "OpLoop"
        => i < Len(code) /\ code[i + 1].op = "Number" /\ code[i + 1].n <= i + 1

\* C13: in every chunk compiled from an accepted source, the operand of every
\* OpJump, OpJumpIfTrue and OpJumpIfFalse is at most the number of words that
\* follow its operand word, and the operand of every OpLoop is at most the ip
\* reached after reading that operand
C13_jump_operands_in_bounds ==
    accepted =>
        \A chunk \in chunks_of(unit.function) :
            \A i \in 1..Len(chunk.code) : jump_in_bounds(chunk.code, i)

\* the words of code pair up: a word is a Number exactly when the word before
\* it is an opcode that carries an operand, and no such opcode is the last word
operands_paired(code) ==
    /\ \A i \in 1..Len(code) :
          (code[i].op = "Number") <=> (i > 1 /\ code[i - 1].op \in OperandOps)
    /\ code # <<>> => code[Len(code)].op \notin OperandOps

has_op(chunk, op) == \E i \in 1..Len(chunk.code) : chunk.code[i].op = op

MaxWrites == 5

WriteLines == 0..2

WriteWords == {Op("OpEol"), Number(0)}

WriteInit ==
    /\ parser = Parser_new(<<>>)
    /\ frames = <<>>
    /\ pc = "writing"
    /\ mode = "none"
    /\ result = "none"
    /\ output = <<>>
    /\ calls = 0
    /\ steps = 0
    /\ last = NoTurn
    /\ unit = NoUnit
    /\ the_chunk = Chunk_new
    /\ lines_written = <<>>
    /\ patches = <<>>

\* chunk.write(byte, line)
Chunk_write(byte, line) ==
    /\ pc = "writing"
    /\ Len(lines_written) < MaxWrites
    /\ the_chunk' = write(the_chunk, byte, line)
    /\ lines_written' = Append(lines_written, line)
    /\ UNCHANGED <<parser, frames, pc, mode, result, output, calls, steps, last, unit,
                   patches>>

WriteNext == \E byte \in WriteWords, line \in WriteLines : Chunk_write(byte, line)

WriteSpec == WriteInit /\ [][WriteNext]_vars

\* the sum of the counts of a line table, from pair i on
RECURSIVE count_sum(_, _)
count_sum(lines, i) == IF i >= Len(lines) THEN 0 ELSE lines[i + 2] + count_sum(lines, i + 2)

\* C15: after any sequence of writes, get_line(i) is the line passed to the
\* write that appended word i, for every i below the length of the code, and
\* the counts of the line table sum to the length of the code
C15_get_line_returns_written_line ==
    pc = "writing" =>
        /\ Len(the_chunk.code) = Len(lines_written)
        /\ \A i \in 0..(Len(the_chunk.code) - 1) :
              get_line(the_chunk, i) = [tag |-> "Ok", line |-> lines_written[i + 1]]
        /\ count_sum(the_chunk.lines, 0) = Len(the_chunk.code)

C15_witness ==
    /\ pc = "writing"
    /\ lines_written = <<1, 1, 2, 1, 0>>
    /\ the_chunk.lines = <<1, 2, 2, 1, 1, 1, 0, 1>>
    /\ get_line(the_chunk, 3).line = 1

used_before_initialized == "Variable is used before being initialized."

\* the declarations of the unit that pushed a new local, and the names the
\* unit resolved to a local whose declaration had not ended
new_declarations == {i \in 1..Len(unit.decls) : unit.decls[i].new}

window_references == {i \in 1..Len(unit.refs) : unit.refs[i].in_window}

\* C16 as stated: the flag of a new local is false from add_local to the end
\* of its initializer, and every reference to the name compiled in between
\* records the diagnostic 'used before being initialized'
C16_every_window_reference_reports ==
    /\ \A i \in new_declarations : ~unit.decls[i].was_initialized
    /\ \A i \in window_references :
          /\ ~unit.refs[i].is_initialized
          /\ unit.refs[i].diag = used_before_initialized

\* C16: the flag of a new local is false from add_local to the end of its
\* initializer; a reference to the name compiled in between records the
\* diagnostic 'used before being initialized' unless the parser is already in
\* panic mode, and either way leaves had_error set, so that the compile is
\* refused
C16_window_reference_is_an_error ==
    /\ \A i \in new_declarations : ~unit.decls[i].was_initialized
    /\ \A i \in window_references :
          /\ ~unit.refs[i].is_initialized
          /\ unit.refs[i].had_error
          /\ ~unit.refs[i].panic_mode => unit.refs[i].diag = used_before_initialized
    /\ (unit.status = "ok" /\ window_references # {}) => had_error(unit.function)

C16_witness ==
    /\ unit.source = file_initializer_reads_itself
    /\ \E i \in window_references :
          ~unit.refs[i].panic_mode /\ unit.refs[i].diag = used_before_initialized
    /\ \E i \in new_declarations : unit.decls[i].initializer
    /\ result = "CompileError"

\* the calls of consume of the unit whose current token was not of the type
\* asked for
missing_delimiters ==
    {i \in 1..Len(unit.consumed) : unit.consumed[i].current # unit.consumed[i].type}

\* C17: whenever consume(kind, msg) is called and the current token is not of
\* that kind, Eof included (a block without its '}', a grouping without its
\* ')'), had_error is set, and a diagnostic is recorded unless panic mode was
\* already on
C17_missing_delimiter_is_reported ==
    \A i \in missing_delimiters :
        /\ unit.consumed[i].had_error
        /\ ~unit.consumed[i].panic_mode => unit.consumed[i].reported

(***************************************************************************)
(* Scanner::scan_token on its own, on the sources "-*" body "*-" "1\n"     *)
(* for every body of at most MaxComment characters of CommentChars.        *)
(* output holds the tokens scan_token has returned.                        *)
(***************************************************************************)
MaxComment == 3

CommentChars == {"a", "*", "-", "\n"}

CommentBodies == UNION {[1..n -> CommentChars] : n \in 0..MaxComment}

commented(body) == <<"-", "*">> \o body \o <<"*", "-", "1", "\n">>

ScanInit ==
    \E body \in CommentBodies :
        /\ parser = Parser_new(commented(body))
        /\ frames = <<>>
        /\ pc = "scanning"
        /\ mode = "none"
        /\ result = "none"
        /\ output = <<>>
        /\ calls = 0
        /\ steps = 0
        /\ last = NoTurn
        /\ unit = NoUnit
        /\ the_chunk = Chunk_new
        /\ lines_written = <<>>
        /\ patches = <<>>

\* one call of self.scanner.scan_token(), until it has returned Eof
Scanner_scan_token ==
    /\ pc = "scanning"
    /\ LET scanned(r) ==
               /\ parser' = [parser EXCEPT !.scanner = r.sc]
               /\ output' = Append(output, r.tok)
               /\ pc' = IF r.tok.type = "Eof" THEN "scanned" ELSE "scanning"
       IN  scanned(scan_token(parser.scanner))
    /\ UNCHANGED <<frames, mode, result, calls, steps, last, unit, the_chunk, lines_written, patches>>

ScanSpec == ScanInit /\ [][Scanner_scan_token]_vars

\* the index after the first "*-" that follows the opening "-*" of source
comment_end(source) ==
    2 + CHOOSE k \in 2..Len(source) :
            /\ source[k + 1] = "*" /\ source[k + 2] = "-"
            /\ \A j \in 2..(k - 1) : ~(source[j + 1] = "*" /\ source[j + 2] = "-")

newlines_before(source, end) == Cardinality({i \in 1..end : source[i] = "\n"})

\* C18: a block comment opened by "-*" is skipped up to and including the
\* first "*-" that follows: the first token scanned starts right after it,
\* whatever the characters inside are, and its line is 1 plus the number of
\* newlines inside the comment
C18_block_comment_is_skipped ==
    (pc \in {"scanning", "scanned"} /\ Len(output) = 1)
        => LET source == parser.scanner.source IN
           /\ parser.scanner.start = comment_end(source)
           /\ output[1].line = 1 + newlines_before(source, comment_end(source))

ComparisonTokens == {"EqualEqual", "BangEqual", "Less", "LessEqual", "Greater", "GreaterEqual"}

\* the index of the first word op in code, 0 when there is none
first_index(code, op) ==
    IF \E i \in 1..Len(code) : code[i].op = op
    THEN CHOOSE i \in 1..Len(code) : code[i].op = op /\ \A j \in 1..(i - 1) : code[j].op # op
    ELSE 0

\* C19: every comparison operator has the infix rule binary at precedence
\* Equality, below Term and Factor, so that `1 + 2 != 3` compiles as
\* (1 + 2) != 3: the OpAdd is emitted before the OpNotEqual
C19_comparisons_at_Equality ==
    /\ \A type \in ComparisonTokens :
          /\ get_rule(type).precedence = PrecEquality
          /\ get_rule(type).infix = "binary"
    /\ PrecEquality < PrecTerm /\ PrecEquality < PrecFactor
    /\ (unit.source = file_sum_not_equal /\ unit.status = "ok")
          => LET code == unit.function.chunk.code IN
             /\ first_index(code, "OpAdd") > 0
             /\ first_index(code, "OpAdd") < first_index(code, "OpNotEqual")

(***************************************************************************)
(* Compiler::emit_jump and patch_jump on their own, and the VM on the jump *)
(* they leave.  A compiler emits at most MaxEmits words and MaxJumps jumps *)
(* on the_chunk in any order, patches each jump at any later moment, ends  *)
(* the chunk as end_compiler does, and the VM is started on one of the     *)
(* jumps with True or False on the stack.  patches notes, for each         *)
(* emit_jump, the index it returned and the length of the code when        *)
(* patch_jump was called on it (-1 before).                                *)
(***************************************************************************)
MaxEmits == 3

MaxJumps == 2

EmittedWords == {Op("OpEol")}

\* a Compiler whose current chunk is chunk, between two calls
Compiler_on(chunk) ==
    [p |-> Parser_new(<<>>),
     c |-> [Compiler_new EXCEPT !.function.chunk = chunk],
     status |-> "ok", ret |-> 0, diags |-> <<>>, pass |-> 2, decls |-> <<>>,
     refs |-> <<>>, window |-> {}, consumed |-> <<>>, events |-> <<>>]

JumpInit ==
    /\ parser = Parser_new(<<>>)
    /\ frames = <<>>
    /\ pc = "emitting"
    /\ mode = "file"
    /\ result = "none"
    /\ output = <<>>
    /\ calls = 1
    /\ steps = 0
    /\ last = NoTurn
    /\ unit = NoUnit
    /\ the_chunk = Chunk_new
    /\ lines_written = <<>>
    /\ patches = <<>>

\* self.emit_byte(byte)
Compiler_emit_byte(byte) ==
    /\ pc = "emitting"
    /\ Len(the_chunk.code) - 2 * Len(patches) < MaxEmits
    /\ the_chunk' = emit_byte(Compiler_on(the_chunk), byte).c.function.chunk
    /\ UNCHANGED <<parser, frames, pc, mode, result, output, calls, steps, last, unit,
                   lines_written, patches>>

\* let index = self.emit_jump(instruction)
Compiler_emit_jump(instruction) ==
    /\ pc = "emitting"
    /\ Len(patches) < MaxJumps
    /\ LET emitted(w) ==
               /\ the_chunk' = w.c.function.chunk
               /\ patches' = Append(patches, [offset |-> w.ret, length |-> -1])
       IN  emitted(emit_jump(Compiler_on(the_chunk), instruction))
    /\ UNCHANGED <<parser, frames, pc, mode, result, output, calls, steps, last, unit,
                   lines_written>>

\* self.patch_jump(index) on the index emit_jump number i returned
Compiler_patch_jump(i) ==
    /\ pc = "emitting"
    /\ patches[i].length = -1
    /\ the_chunk' = patch_jump(Compiler_on(the_chunk), patches[i].offset).c.function.chunk
    /\ patches' = [patches EXCEPT ![i].length = Len(the_chunk.code)]
    /\ UNCHANGED <<parser, frames, pc, mode, result, output, calls, steps, last, unit,
                   lines_written>>

\* end_compiler, and the VM started at jump number i with value on the stack
start_at_jump(i, value) ==
    /\ pc = "emitting"
    /\ \A j \in 1..Len(patches) : patches[j].length # -1
    /\ LET ended(w) ==
               /\ the_chunk' = w.c.function.chunk
               /\ frames' = <<[CallFrame([ObjFunction_new EXCEPT !.chunk = w.c.function.chunk],
                                         <<value>>, 1)
                                 EXCEPT !.ip = patches[i].offset - 1]>>
       IN  ended(emit_return(Compiler_on(the_chunk)))
    /\ pc' = "running"
    /\ UNCHANGED <<parser, mode, result, output, calls, steps, last, unit, lines_written,
                   patches>>

JumpNext ==
    \/ \E byte \in EmittedWords : Compiler_emit_byte(byte)
    \/ \E instruction \in ForwardJumps : Compiler_emit_jump(Op(instruction))
    \/ \E i \in 1..Len(patches) : Compiler_patch_jump(i)
    \/ \E i \in 1..Len(patches), value \in {ValTrue, ValFalse} : start_at_jump(i, value)
    \/ run

JumpSpec == JumpInit /\ [][JumpNext]_vars

\* the turn just made is the jump that emit_jump number i emitted, and the VM
\* took it
jump_taken(i) ==
    /\ steps = 1
    /\ last.ip = patches[i].offset - 1
    /\ last.op \in ForwardJumps
    /\ \/ last.op = "OpJump"
       \/ last.op = "OpJumpIfTrue" /\ is_truthy(top([slots |-> last.slots]))
       \/ last.op = "OpJumpIfFalse" /\ ~is_truthy(top([slots |-> last.slots]))

\* C20: for any emit_jump followed by any number of emitted words and then
\* patch_jump on the index it returned, when the VM takes that jump its
\* instruction pointer becomes the length the code had when patch_jump was
\* called
C20_taken_jump_lands_at_patch ==
    \A i \in 1..Len(patches) :
        jump_taken(i) => current_frame(frames).ip = patches[i].length

C20_witness ==
    \E i \in 1..Len(patches) :
        /\ jump_taken(i)
        /\ last.op = "OpJumpIfFalse"
        /\ patches[i].length > patches[i].offset + 1
        /\ patches[i].length < Len(the_chunk.code) - 2
        /\ current_frame(frames).ip = patches[i].length

\* the while statement whose OpLoop the turn just made has executed
loop_executed(i) ==
    /\ last.op = "OpLoop"
    /\ unit.events[i].chunk = last.chunk
    /\ unit.events[i].at = last.ip

\* C21: executing the OpLoop that while_statement emits sets the instruction
\* pointer to loop_start, the index of the first instruction of the loop
\* condition, wherever the loop sits in the chunk
C21_loop_returns_to_loop_start ==
    \A i \in events_of("while") :
        loop_executed(i)
            => /\ last.result = "none"
               /\ current_frame(frames).ip = unit.events[i].loop_start

\* the operand word of the instruction the turn just made has executed
last_operand == last.function.chunk.code[last.ip + 2].n

\* the turn just made executed OpCall argc with a callee on the stack
call_turn ==
    /\ last.op = "OpCall"
    /\ last.ip + 2 <= Len(last.function.chunk.code)
    /\ last_operand < Len(last.slots)

last_callee == last.slots[Len(last.slots) - last_operand]

\* C22: after OpCall argc on a Function callee a new frame is on top with ip
\* 0 and slots equal to the first functions_count slots of the caller
\* followed by the last argc values of the caller's stack, and the caller
\* has lost exactly those argc values; on a callee that is not a Function no
\* frame is pushed and run returns RuntimeError
C22_call_builds_frame ==
    call_turn =>
        IF last_callee.kind = "ObjFunction"
        THEN /\ last.result = "none"
             /\ Len(frames) = last.depth + 1
             /\ current_frame(frames).ip = 0
             /\ current_frame(frames).function = last_callee.fn
             /\ current_frame(frames).slots =
                    SubSeq(last.slots, 1, last.function.functions_count)
                    \o SubSeq(last.slots, Len(last.slots) - last_operand + 1, Len(last.slots))
             /\ frames[last.depth].slots =
                    SubSeq(last.slots, 1, Len(last.slots) - last_operand)
        ELSE /\ last.result = "RuntimeError"
             /\ Len(frames) = last.depth

\* the next turn of VM::run executes OpReturn on a frame that holds a value
return_next ==
    /\ pc = "running"
    /\ steps < MaxSteps
    /\ current_frame(frames).ip < Len(current_frame(frames).function.chunk.code)
    /\ current_frame(frames).function.chunk.code[current_frame(frames).ip + 1].op = "OpReturn"
    /\ current_frame(frames).slots # <<>>

\* frame is waiting at the word after the operand of an OpCall
after_call(frame) ==
    /\ frame.ip >= 2
    /\ frame.function.chunk.code[frame.ip - 1].op = "OpCall"

\* C23: OpReturn pops the top of the current frame's stack as the result and
\* pops that frame; if a caller frame remains the result is pushed on the
\* caller's stack and execution resumes at the caller's saved ip, the word
\* after the OpCall operand, the caller's other slots and the frames below
\* unchanged; if no frame remains, run returns Ok
C23_return_resumes_caller ==
    [][(return_next /\ steps' = steps + 1)
          => IF Len(frames) > 1
             THEN /\ frames' = [SubSeq(frames, 1, Len(frames) - 1)
                                  EXCEPT ![Len(frames) - 1].slots =
                                             Append(@, top(current_frame(frames)))]
                  /\ after_call(current_frame(frames'))
                  /\ pc' = "running"
                  /\ result' = result
             ELSE /\ frames' = <<>>
                  /\ result' = "Ok"
                  /\ pc' = after_interpret(mode)]_vars

(***************************************************************************)
(* C24: recovery from an error.                                            *)
(***************************************************************************)
\* the position of the first line feed of source at or after position from,
\* Len(source) when there is none
RECURSIVE first_newline(_, _)
first_newline(source, from) ==
    IF from >= Len(source) THEN Len(source)
    ELSE IF source[from + 1] = "\n" THEN from
    ELSE first_newline(source, from + 1)

\* the position of the first character of a token: the scanner sets the start
\* of a Newline token behind its line feed
position(token) == IF token.type = "Newline" THEN token.start - 1 ELSE token.start

\* the index of the last error report before event i, 0 when there is none
error_before(i) ==
    LET reports == {j \in events_of("error") : j < i}
    IN  IF reports = {} THEN 0 ELSE CHOOSE j \in reports : \A k \in reports : k <= j

\* synchronize call i left the parser behind the first Newline at or after
\* the token of the error it recovers from, or at Eof when no Newline follows
resumes_after_faulty_line(i) ==
    LET error == unit.events[error_before(i)].token
        newline == first_newline(unit.source, position(error))
        after == unit.events[i]
    IN  /\ ~after.panic_mode
        /\ IF newline < Len(unit.source)
           THEN after.previous.type = "Newline" /\ position(after.previous) = newline
           ELSE after.current.type = "Eof"

\* C24: synchronize clears panic_mode and discards the tokens up to and
\* including the next Newline that follows the error position (or up to Eof),
\* so that parsing resumes at the first token of the following line
C24_synchronize_skips_faulty_line ==
    \A i \in events_of("synchronize") :
        error_before(i) # 0 => resumes_after_faulty_line(i)

(***************************************************************************)
(* C25: add_local.                                                         *)
(***************************************************************************)
\* the indices of the locals that have the lexeme of name
same_lexeme(locals, name) ==
    {i \in 1..Len(locals) : locals[i].name.lexeme = name.lexeme}

\* no two locals have the same lexeme
distinct_lexemes(locals) ==
    \A i, j \in 1..Len(locals) :
        locals[i].name.lexeme = locals[j].name.lexeme => i = j

\* call i of add_local found the local, or appended a new one
add_local_finds_or_appends(i) ==
    LET made == unit.events[i]
        same == same_lexeme(made.before, made.name)
    IN  IF same # {}
        THEN /\ made.after = made.before
             /\ made.ret + 1 \in same
        ELSE /\ made.after = Append(made.before,
                                    [name |-> made.name, depth |-> made.scope_depth,
                                     type_ |-> made.var_type, is_initialized |-> FALSE])
             /\ made.ret = Len(made.before)

\* C25: add_local returns the index of an existing local with the same lexeme
\* and leaves the locals unchanged; only when no local has the lexeme does it
\* append one entry at the current scope depth with is_initialized false; the
\* lexemes of the locals are pairwise distinct
C25_add_local_keeps_lexemes_distinct ==
    /\ \A i \in events_of("add_local") :
           /\ add_local_finds_or_appends(i)
           /\ distinct_lexemes(unit.events[i].after)
    /\ distinct_lexemes(unit.locals)

\* a compile in which add_local found an existing local and, in another
\* call, appended a new one
C25_witness ==
    /\ unit.status = "ok"
    /\ \E i \in events_of("add_local") :
           same_lexeme(unit.events[i].before, unit.events[i].name) # {}
    /\ \E i \in events_of("add_local") :
           /\ same_lexeme(unit.events[i].before, unit.events[i].name) = {}
           /\ unit.events[i].before # <<>>

(***************************************************************************)
(* C26: end_scope.                                                         *)
(***************************************************************************)
\* the locals whose depth is at most scope_depth, in their order
RECURSIVE locals_within(_, _)
locals_within(locals, scope_depth) ==
    IF locals = <<>> THEN <<>>
    ELSE IF Head(locals).depth <= scope_depth
         THEN <<Head(locals)>> \o locals_within(Tail(locals), scope_depth)
         ELSE locals_within(Tail(locals), scope_depth)

\* call i of end_scope removed the locals deeper than the new scope depth,
\* and emitted one OpPop for each
end_scope_removes_deeper_locals(i) ==
    LET ended == unit.events[i] IN
    /\ ended.after = locals_within(ended.before, ended.scope_depth)
    /\ Len(ended.emitted) = Len(ended.before) - Len(ended.after)
    /\ \A k \in 1..Len(ended.emitted) : ended.emitted[k] = Op("OpPop")

\* C26: end_scope removes exactly the locals whose depth exceeds the new scope
\* depth, keeps the others in their order and emits one OpPop per removed
\* local, also in a function compiler that inherited the locals of its parent
C26_end_scope_removes_deeper_locals ==
    \A i \in events_of("end_scope") : end_scope_removes_deeper_locals(i)

(***************************************************************************)
(* C27: what the first pass records.                                       *)
(***************************************************************************)
\* the names of the function definitions the second pass compiled
function_definitions ==
    {unit.events[i].name : i \in events_of("function_initialization")}

\* the first pass left no code and no constant, and one local, one signature
\* and one count for each function definition
first_pass_records_definitions(i) ==
    LET first == unit.events[i] IN
    /\ first.code = <<>>
    /\ first.constants = <<>>
    /\ first.functions_count = Cardinality(events_of("function_initialization"))
    /\ first.functions_count = Cardinality(first.functions)
    /\ first.functions = function_definitions
    /\ {first.locals[k].name.lexeme : k \in 1..Len(first.locals)} = function_definitions

\* C27: pass 1 writes no instruction and no constant and records exactly the
\* function definitions of the source: functions_count is their number and
\* the number of signatures, and an identifier followed by '{' or ':' that is
\* not a function header adds no local, no signature and no count
C27_first_pass_records_function_definitions ==
    unit.status = "ok" /\ unit.diags = <<>> =>
        \A i \in events_of("first_pass") : first_pass_records_definitions(i)

(***************************************************************************)
(* C28: the slots of OpGet and OpSet.                                      *)
(***************************************************************************)
\* the operand of the OpGet or OpSet the turn just made
last_slot == last.function.chunk.code[last.ip + 2].n

\* the turn just made is an OpGet or OpSet of the program of unit, which
\* compiled without error
slot_turn ==
    /\ last.op \in {"OpGet", "OpSet"}
    /\ last.owner = calls
    /\ unit.status = "ok" /\ unit.diags = <<>> /\ ~unit.function.chunk.had_error

\* C28: in a run of a program compiled without error every OpGet and OpSet
\* executes with a slot below the length of the current frame's slots, and
\* OpGet of a local pushes the value most recently assigned to it
C28_slots_in_range_and_current ==
    slot_turn =>
        /\ last_slot < Len(last.slots)
        /\ (last.op = "OpGet" /\ <<last.depth, last_slot>> \in DOMAIN last.assigned)
               => /\ last.result = "none"
                  /\ top(current_frame(frames)) = last.assigned[<<last.depth, last_slot>>]

(***************************************************************************)
(* C29: the operand stack across an if statement.                          *)
(***************************************************************************)
\* the turn just made took the current frame behind the last word of if
\* statement i, which that frame had entered
if_left(i) ==
    /\ frames # <<>>
    /\ last.result = "none"
    /\ last.owner = calls
    /\ last.depth = Len(frames)
    /\ last.chunk = unit.events[i].chunk
    /\ last.ip < unit.events[i].end
    /\ current_frame(frames).ip = unit.events[i].end
    /\ <<last.depth, i>> \in DOMAIN last.entered

\* C29: executing a compiled if statement, with or without else, leaves the
\* operand stack at the depth it had before the condition was evaluated, on
\* the condition-true path as well as on the condition-false path
C29_if_leaves_stack_depth ==
    \A i \in events_of("if") :
        if_left(i) => Len(current_frame(frames).slots) = last.entered[<<last.depth, i>>]

(***************************************************************************)
(* C30: compile and the process-wide parser.                               *)
(***************************************************************************)
\* what compile returned for the source of unit is what w, a compile of the
\* same source, returned: the outcome, the function (code, constants,
\* functions_count, had_error), the diagnostics, and the history, in which
\* is what the first pass recorded
same_compilation(w) ==
    /\ unit.status = w.status
    /\ ok(w) => unit.function = w.ret
    /\ unit.diags = w.diags
    /\ unit.events = w.events

\* C30: the result of compile(S) does not depend on earlier compile calls of
\* the process: it is the result compile(S) has as the first call, with the
\* parser as Parser::new leaves it
C30_compile_independent_of_history ==
    unit.status # "none" =>
        same_compilation(recur("compile", Parser_new(<<>>), unit.source))

====
